---- MODULE Spec2Model ----
(***************************************************************************)
(* Model of the Zellij notification bridge (lib/zellij.js) and of the      *)
(* zellij-notify command line (bin/zellij-notify.js).                      *)
(*                                                                         *)
(* One process runs one entry point to completion.  Every child process    *)
(* the code starts through execSync is a step whose outcome is chosen by   *)
(* the environment.  JavaScript strings are sequences of one-character     *)
(* strings so that parseInt, startsWith and name comparison are computed.  *)
(***************************************************************************)
EXTENDS Integers, Sequences, FiniteSets, TLC

VARIABLES
    ZELLIJ,         \* process.env.ZELLIJ is set (truthy)
    focus,          \* the multiplexer: index of the tab that has the focus
    entry,          \* which exported function / program was started
    pc,             \* position of the running code
    stack,          \* return sites of the pending sendNotification call
    notification,   \* sendNotification: parameter notification
    pluginName,     \* sendNotification: parameter pluginName
    options,        \* sendNotification: parameter options
    maxRetries,     \* sendNotification: local maxRetries
    retryDelay,     \* sendNotification: local retryDelay
    payload,        \* sendNotification: local payload
    attempt,        \* sendNotification: loop variable attempt
    lastError,      \* sendNotification: local lastError
    trace,          \* child processes started by the current sendNotification call
    warned,         \* number of 'Could not switch to tab' warnings of the current call
    spawned,        \* number of zellij child processes started by the process so far
    sendRet,        \* how the last sendNotification call ended
    jsonPayload,    \* sendNotification: local jsonPayload
    command,        \* the command line of the last 'zellij pipe' given to execSync
    received,       \* what the shell made of that command line
    allNotification, \* sendNotificationToAllTabs: parameter notification
    allPlugin,      \* sendNotificationToAllTabs: parameter pluginName
    tabs,           \* sendNotificationToAllTabs: local tabs
    tabPos,         \* sendNotificationToAllTabs: position of the for-of loop in tabs
    successCount,   \* sendNotificationToAllTabs: local successCount
    errors,         \* sendNotificationToAllTabs: local errors
    calls,          \* the sendNotification calls made by the broadcast: tabIndex passed, outcome
    allRet,         \* how sendNotificationToAllTabs ended
    identifier,     \* resolveTab: parameter identifier
    resolveTabs,    \* resolveTab: local tabs, and whether getTabs() was called for it
    resolveRet,     \* how resolveTab ended
    args,           \* zellij-notify: process.argv.slice(2)
    cliOptions,     \* zellij-notify main: local options (the result of parseArgs)
    cliNotification, \* zellij-notify main: local notification
    out,            \* zellij-notify: lines written to stdout and stderr
    exitCode,       \* zellij-notify: exit status of the process, -1 while it runs
    file,           \* the settings file ~/.config/claude-notifications/settings.json
    loads,          \* the getConfig calls of the processes that share the file
    player,         \* claude-notify: one playSound call, what it started and wrote
    cycle,          \* claude-notify: one run of main, its channels and its exit
    listener        \* claude-notify --listen: the relay server and its connections

sendVars == << notification, pluginName, options, maxRetries, retryDelay, payload,
               attempt, lastError, trace, warned, sendRet, jsonPayload, command, received >>

allVars == << allNotification, allPlugin, tabs, tabPos, successCount, errors, calls, allRet >>

resolveVars == << identifier, resolveTabs, resolveRet >>

cliVars == << args, cliOptions, cliNotification, out, exitCode >>

zellijVars == << ZELLIJ, focus, entry, pc, stack, spawned, sendVars, allVars, resolveVars, cliVars >>

configVars == << file, loads >>

\* the state of the claude-notify side, which the zellij-notify side never touches
notifyVars == << configVars, player, cycle, listener >>

vars == << zellijVars, notifyVars >>

----
\* Bounds of the model

MaxRetriesOpt == 3
MaxTabs == 2
MaxLoads == 2
MaxConns == 2
MaxRequests == 2
MaxChunks == 2

----
\* JavaScript values

Undef == [t |-> "undefined", n |-> 0, s |-> << >>]
Null == [t |-> "null", n |-> 0, s |-> << >>]
NaN == [t |-> "nan", n |-> 0, s |-> << >>]
Num(k) == [t |-> "number", n |-> k, s |-> << >>]
Str(cs) == [t |-> "string", n |-> 0, s |-> cs]

\* an object that has no own property of that name, and the read of a property
Absent == [t |-> "absent", n |-> 0, s |-> << >>]
Prop(v) == IF v = Absent THEN Undef ELSE v

Bool(b) == [t |-> "boolean", n |-> IF b THEN 1 ELSE 0, s |-> << >>]
Obj == [t |-> "object", n |-> 0, s |-> << >>]

Truthy(v) == \/ (v.t = "number" /\ v.n # 0)
             \/ (v.t = "string" /\ v.s # << >>)
             \/ (v.t = "boolean" /\ v.n = 1)
             \/ v.t = "object"

\* a || b
OrElse(a, b) == IF Truthy(a) THEN a ELSE b

\* a ?? b
Coalesce(a, b) == IF a.t \in {"undefined", "null"} THEN b ELSE a

----
\* Numbers and values as text

Digits == << "0", "1", "2", "3", "4", "5", "6", "7", "8", "9" >>

IsDigit(c) == \E d \in 1..10 : Digits[d] = c
DigitVal(c) == (CHOOSE d \in 1..10 : Digits[d] = c) - 1

\* template interpolation of a non-negative integer
RECURSIVE IntToStr(_)
IntToStr(k) == IF k < 10 THEN << Digits[k + 1] >>
               ELSE IntToStr(k \div 10) \o << Digits[(k % 10) + 1] >>

sUndefined == << "u", "n", "d", "e", "f", "i", "n", "e", "d" >>

\* ${value} in a template literal
ToText(v) == IF v.t = "string" THEN v.s
             ELSE IF v.t = "number" THEN (IF v.n < 0 THEN << "-" >> \o IntToStr(-v.n) ELSE IntToStr(v.n))
             ELSE IF v.t = "nan" THEN << "N", "a", "N" >>
             ELSE IF v.t = "null" THEN << "n", "u", "l", "l" >>
             ELSE sUndefined

----
\* String literals of the source, as character sequences

sInfo == << "i", "n", "f", "o" >>
sSuccess == << "s", "u", "c", "c", "e", "s", "s" >>
sError == << "e", "r", "r", "o", "r" >>
sWarning == << "w", "a", "r", "n", "i", "n", "g" >>
sAttention == << "a", "t", "t", "e", "n", "t", "i", "o", "n" >>
sProgress == << "p", "r", "o", "g", "r", "e", "s", "s" >>
sLow == << "l", "o", "w" >>
sNormal == << "n", "o", "r", "m", "a", "l" >>
sHigh == << "h", "i", "g", "h" >>
sCritical == << "c", "r", "i", "t", "i", "c", "a", "l" >>
sNotification == << "N", "o", "t", "i", "f", "i", "c", "a", "t", "i", "o", "n" >>
sZellijNotify == << "z", "e", "l", "l", "i", "j", "-", "n", "o", "t", "i", "f", "y" >>
sDefaultPlugin == << "z", "e", "l", "l", "i", "j", "_", "v", "i", "s", "u", "a", "l", "_",
                     "n", "o", "t", "i", "f", "i", "c", "a", "t", "i", "o", "n", "s" >>

NOTIFICATION_TYPES == << sSuccess, sError, sWarning, sInfo, sAttention, sProgress >>
PRIORITIES == << sLow, sNormal, sHigh, sCritical >>

\* Array.prototype.includes on an array of strings, for any JavaScript value
Includes(arr, v) == \E i \in 1..Len(arr) : v.t = "string" /\ arr[i] = v.s

----
\* Sample inputs

sMsg == << "h", "i" >>
sBogus == << "b", "a", "d" >>
sMyPlugin == << "p", "l", "g" >>

TypeInputs == {Absent, Str(sSuccess), Str(sBogus)}
PriorityInputs == {Absent, Str(sHigh), Str(sBogus)}
TabIndexInputs == {Absent, Num(1), Num(2)}
MaxRetriesInputs == {Undef} \cup {Num(k) : k \in (-1)..MaxRetriesOpt}
RetryDelayInputs == {Undef, Num(0), Num(250)}
PluginInputs == {Undef, Str(sMyPlugin)}

NotificationInputs ==
    [type : TypeInputs, message : {Str(sMsg)}, title : {Absent}, source : {Absent},
     priority : PriorityInputs, ttl : {Absent}, tabIndex : TabIndexInputs]

OptionsInputs == [maxRetries : MaxRetriesInputs, retryDelay : RetryDelayInputs]

----
\* lib/zellij.js

\* Errors: the message template and what it interpolates
Err(kind, n, name) == [kind |-> kind, n |-> n, name |-> name, allowed |-> << >>]
NoErr == Err("none", 0, << >>)
NotInSessionError == Err("Not in a Zellij session", 0, << >>)
PluginNotFoundError(plugin) == Err("Plugin not found", 0, plugin)
TimeoutError(plugin, n) == Err("Timeout sending to plugin", n, plugin)
FailedError(n) == Err("Failed to send notification", n, << >>)
TabNotFoundError(id) == Err("Tab not found", 0, id)

\* How a call ended
Returned(v) == [status |-> "returned", value |-> v, error |-> NoErr]
Raised(e) == [status |-> "raised", value |-> FALSE, error |-> e]
Pending == [status |-> "none", value |-> FALSE, error |-> NoErr]

\* A child process started through execSync; code is the error code execSync
\* reports for it ("-" when it reports none), delivered whether the plugin got
\* the payload of a pipe command
Ev(cmd, arg, res) ==
    [cmd |-> cmd, arg |-> arg, res |-> res, code |-> "-", delivered |-> FALSE]

\* the environment marker alone decides, the probe's outcome is ignored
isInZellijSession_markerOnly(alive) == ZELLIJ

\* isInZellijSession(): alive is the outcome of 'zellij action query-tab-names'
isInZellijSession(alive) == IF ~ZELLIJ THEN FALSE ELSE alive

\* the child processes isInZellijSession() starts
ProbeEvents(alive) ==
    IF ZELLIJ THEN << Ev("probe", 0, IF alive THEN "ok" ELSE "fail") >> ELSE << >>

\* Date.now()
DateNow == Num(1)

NotificationFields == {"type", "message", "title", "source", "priority", "ttl", "tabIndex"}

\* lines 123-136: the object literal, in which the spread of notification comes
\* last and replaces every property notification owns, then the ttl assignment
BuildPayload(n) ==
    LET literal == [type |-> OrElse(Prop(n.type), Str(sInfo)),
                    message |-> Prop(n.message),
                    title |-> OrElse(Prop(n.title), Str(sNotification)),
                    source |-> OrElse(Prop(n.source), Str(sZellijNotify)),
                    priority |-> OrElse(Prop(n.priority), Str(sNormal)),
                    timestamp |-> DateNow,
                    ttl |-> Absent,
                    tabIndex |-> Absent]
        spread == [f \in DOMAIN literal |->
                     IF f \in NotificationFields /\ n[f] # Absent THEN n[f] ELSE literal[f]]
    IN  IF Prop(n.ttl) # Undef THEN [spread EXCEPT !.ttl = n.ttl] ELSE spread

\* the local payload before line 123 assigns it
NoPayload == [f \in {"type", "message", "title", "source", "priority", "timestamp",
                      "ttl", "tabIndex"} |-> Undef]

\* the own enumerable properties of the payload in the order the literal, the
\* spread and the ttl assignment create them, and their names as text
PayloadKeys == << "type", "message", "title", "source", "priority", "timestamp", "ttl", "tabIndex" >>
KeyText ==
    [type |-> << "t", "y", "p", "e" >>,
     message |-> << "m", "e", "s", "s", "a", "g", "e" >>,
     title |-> << "t", "i", "t", "l", "e" >>,
     source |-> << "s", "o", "u", "r", "c", "e" >>,
     priority |-> << "p", "r", "i", "o", "r", "i", "t", "y" >>,
     timestamp |-> << "t", "i", "m", "e", "s", "t", "a", "m", "p" >>,
     ttl |-> << "t", "t", "l" >>,
     tabIndex |-> << "t", "a", "b", "I", "n", "d", "e", "x" >>]

\* JSON.stringify of a string without control characters: the text between double
\* quotes, a backslash put before every double quote and every backslash
RECURSIVE EscapeJson(_)
EscapeJson(cs) ==
    IF cs = << >> THEN << >>
    ELSE (IF Head(cs) \in {"\"", "\\"} THEN << "\\", Head(cs) >> ELSE << Head(cs) >>)
         \o EscapeJson(Tail(cs))

QuoteJson(cs) == << "\"" >> \o EscapeJson(cs) \o << "\"" >>

\* JSON.stringify of a property value: NaN is written as null
JsonValue(v) == IF v.t = "string" THEN QuoteJson(v.s)
                ELSE IF v.t = "number" THEN ToText(v)
                ELSE << "n", "u", "l", "l" >>

\* the properties JSON.stringify writes: those whose value is not undefined
RECURSIVE WrittenKeys(_, _)
WrittenKeys(p, ks) ==
    IF ks = << >> THEN << >>
    ELSE (IF p[Head(ks)].t \in {"undefined", "absent"} THEN << >> ELSE << Head(ks) >>)
         \o WrittenKeys(p, Tail(ks))

RECURSIVE JsonMembers(_, _)
JsonMembers(p, ks) ==
    IF ks = << >> THEN << >>
    ELSE QuoteJson(KeyText[Head(ks)]) \o << ":" >> \o JsonValue(p[Head(ks)])
         \o (IF Tail(ks) = << >> THEN << >> ELSE << "," >>)
         \o JsonMembers(p, Tail(ks))

\* line 138: JSON.stringify(payload)
JSONStringify(p) == << "{" >> \o JsonMembers(p, WrittenKeys(p, PayloadKeys)) \o << "}" >>

sZellijPipe == << "z", "e", "l", "l", "i", "j", " ", "p", "i", "p", "e", " ", "-", "p", " " >>

\* line 160: the template zellij pipe -p ${pluginName} -- '${jsonPayload}'
PipeCommand(plugin, json) ==
    sZellijPipe \o plugin \o << " ", "-", "-", " ", "'" >> \o json \o << "'" >>

\* characters the shell gives a meaning to outside quotes (the backquote, which no
\* input of the model contains, is left out)
ShellMeta == {";", "|", "&", "$", "<", ">", "(", ")", "*", "?", "~", "#"}

\* execSync hands the command line to /bin/sh -c.  The shell splits it into words:
\* blanks separate words, single quotes keep every character, double quotes keep
\* all but backslash and dollar, a backslash outside quotes keeps the next
\* character.  mode is plain, single or double; meta records that a character was
\* given its shell meaning.
ShellStart == [mode |-> "plain", word |-> << >>, inWord |-> FALSE, words |-> << >>,
               meta |-> FALSE]

ShellEndWord(st) ==
    [st EXCEPT !.word = << >>, !.inWord = FALSE,
               !.words = IF st.inWord THEN Append(st.words, st.word) ELSE st.words]

ShellKeep(st, cs, mode) ==
    [st EXCEPT !.word = st.word \o cs, !.inWord = TRUE, !.mode = mode]

\* the characters that end a run of ordinary characters in each mode
ShellSpecial(mode) ==
    IF mode = "single" THEN {"'"}
    ELSE IF mode = "double" THEN {"\"", "\\", "$"}
    ELSE {" ", "'", "\"", "\\"} \cup ShellMeta

\* the position of the first special character of cmd at or after pos, Len(cmd) + 1
\* if there is none
NextSpecial(cmd, pos, mode) ==
    LET at == {i \in pos..Len(cmd) : cmd[i] \in ShellSpecial(mode)}
    IN  IF at = {} THEN Len(cmd) + 1 ELSE CHOOSE i \in at : \A j \in at : i <= j

\* the scanner from position pos on: a run of ordinary characters is kept as it
\* is, then the special character that ends it is given its meaning
RECURSIVE ShellScan(_, _, _)
ShellScan(cmd, pos, st) ==
    IF pos > Len(cmd) THEN st
    ELSE LET q == NextSpecial(cmd, pos, st.mode)
             c == cmd[pos]
             next == IF pos < Len(cmd) THEN << cmd[pos + 1] >> ELSE << >>
         IN  IF q > pos
             THEN ShellScan(cmd, q, ShellKeep(st, SubSeq(cmd, pos, q - 1), st.mode))
             ELSE IF st.mode = "single"
             THEN ShellScan(cmd, pos + 1, ShellKeep(st, << >>, "plain"))
             ELSE IF st.mode = "double"
             THEN IF c = "\"" THEN ShellScan(cmd, pos + 1, ShellKeep(st, << >>, "plain"))
                  ELSE IF c = "$"
                  THEN ShellScan(cmd, pos + 1,
                                 [ShellKeep(st, << c >>, "double") EXCEPT !.meta = TRUE])
                  ELSE IF next # << >> /\ next[1] \in {"\"", "\\", "$"}
                  THEN ShellScan(cmd, pos + 2, ShellKeep(st, next, "double"))
                  ELSE ShellScan(cmd, pos + 1, ShellKeep(st, << c >>, "double"))
             ELSE IF c = " " THEN ShellScan(cmd, pos + 1, ShellEndWord(st))
             ELSE IF c = "'" THEN ShellScan(cmd, pos + 1, ShellKeep(st, << >>, "single"))
             ELSE IF c = "\"" THEN ShellScan(cmd, pos + 1, ShellKeep(st, << >>, "double"))
             ELSE IF c = "\\" THEN ShellScan(cmd, pos + 2, ShellKeep(st, next, "plain"))
             ELSE ShellScan(cmd, pos + 1, [ShellEndWord(st) EXCEPT !.meta = TRUE])

\* what the shell runs: ok is FALSE when the line ends inside quotes (a syntax
\* error: nothing is run), words are the words of the command
ShellParse(cmd) ==
    LET st == ShellScan(cmd, 1, ShellStart)
    IN  IF st.mode # "plain"
        THEN [ok |-> FALSE, words |-> << >>, meta |-> st.meta]
        ELSE [ok |-> TRUE, words |-> ShellEndWord(st).words, meta |-> st.meta]

\* no command line has been given to the shell yet
NotReceived == [ok |-> TRUE, words |-> << >>, meta |-> FALSE]

RECURSIVE Pow2(_)
Pow2(k) == IF k <= 0 THEN 1 ELSE 2 * Pow2(k - 1)

\* the exponent is one too large
BackoffDelay_exponentOff(delay, att) == delay * Pow2(att + 1)

\* retryDelay * Math.pow(2, attempt)
BackoffDelay(delay, att) == delay * Pow2(att)

NoLastError == [set |-> FALSE, timedOut |-> FALSE]

\* outcomes of 'zellij pipe': exit status, stderr containing 'no pipe', code
\* ETIMEDOUT, and whether the plugin got the payload: it did when the command
\* succeeded, and a command that execSync killed after its 5 seconds may or may not
\* have handed the payload over before; execSync reports nothing about it
PipeOutcomes ==
    {[ok |-> TRUE, noPipe |-> FALSE, timedOut |-> FALSE, delivered |-> TRUE]} \cup
    {o \in [ok : {FALSE}, noPipe : BOOLEAN, timedOut : BOOLEAN, delivered : BOOLEAN] :
        o.delivered => (o.timedOut /\ ~o.noPipe)}

\* a missing pipe is treated like any other failure
IsPermanent_never(o) == FALSE

\* line 171: pipeError.stderr && pipeError.stderr.includes('no pipe')
IsPermanent(o) == o.noPipe

\* any attempt that timed out makes the final error a timeout
LastErrorAfter_anyTimeout(prev, o) ==
    [set |-> TRUE, timedOut |-> prev.timedOut \/ o.timedOut]

\* line 179: lastError = pipeError
LastErrorAfter(prev, o) == [set |-> TRUE, timedOut |-> o.timedOut]

\* the sleep also follows the last attempt
ShouldSleep_afterLast(att, maxR) == att <= maxR

\* line 182: attempt < maxRetries
ShouldSleep(att, maxR) == att < maxR

\* the tab switch is made on the first attempt only
LoopTest_switchOnce(att, maxR, n) ==
    IF att <= maxR
    THEN IF Prop(n.tabIndex) # Undef /\ att = 0 THEN "send_goto" ELSE "send_pipe"
    ELSE "send_exhausted"

\* where the for loop goes when its test is evaluated with this attempt
LoopTest(att, maxR, n) ==
    IF att <= maxR
    THEN IF Prop(n.tabIndex) # Undef THEN "send_goto" ELSE "send_pipe"
    ELSE "send_exhausted"

\* leave sendNotification
Finish(ret) ==
    /\ sendRet' = ret
    /\ pc' = Head(stack)
    /\ stack' = Tail(stack)

\* lines 114-142: session check, defaults, payload, first loop test
SendStart ==
    /\ pc = "send_start"
    /\ \E alive \in BOOLEAN :
         /\ trace' = ProbeEvents(alive)
         /\ spawned' = spawned + Len(ProbeEvents(alive))
         /\ warned' = 0
         /\ attempt' = 0
         /\ lastError' = NoLastError
         /\ IF ~isInZellijSession(alive)
            THEN /\ Finish(Raised(NotInSessionError))
                 /\ UNCHANGED << maxRetries, retryDelay, payload >>
            ELSE /\ maxRetries' = Coalesce(options.maxRetries, Num(2)).n
                 /\ retryDelay' = Coalesce(options.retryDelay, Num(100)).n
                 /\ payload' = BuildPayload(notification)
                 /\ pc' = LoopTest(0, maxRetries', notification)
                 /\ UNCHANGED << stack, sendRet >>
    /\ UNCHANGED << ZELLIJ, focus, entry, notifyVars, notification, pluginName, options, jsonPayload, command,
                    received, allVars, resolveVars, cliVars >>

\* lines 145-157: zellij action go-to-tab, which moves the focus when it succeeds
SendGoToTab ==
    /\ pc = "send_goto"
    /\ \E ok \in BOOLEAN :
         /\ trace' = Append(trace, Ev("goto", notification.tabIndex.n, "-"))
         /\ warned' = IF ~ok /\ attempt = 0 THEN warned + 1 ELSE warned
         /\ focus' = IF ok THEN notification.tabIndex.n ELSE focus
    /\ spawned' = spawned + 1
    /\ pc' = "send_pipe"
    /\ UNCHANGED << ZELLIJ, entry, notifyVars, stack, notification, pluginName, options,
                    maxRetries, retryDelay, payload, jsonPayload, command, received,
                    attempt, lastError, sendRet,
                    allVars, resolveVars, cliVars >>

\* lines 160-182: zellij pipe and the classification of its failure
SendPipe ==
    /\ pc = "send_pipe"
    /\ \E o \in PipeOutcomes :
         /\ trace' = Append(trace,
                [Ev("pipe", attempt,
                    IF o.ok THEN "ok" ELSE IF o.noPipe THEN "nopipe" ELSE "transient")
                 EXCEPT !.code = IF o.timedOut THEN "ETIMEDOUT" ELSE "-",
                        !.delivered = o.delivered])
         /\ IF o.ok
            THEN /\ Finish(Returned(TRUE))
                 /\ UNCHANGED << attempt, lastError >>
            ELSE IF IsPermanent(o)
            THEN /\ Finish(Raised(PluginNotFoundError(pluginName)))
                 /\ UNCHANGED << attempt, lastError >>
            ELSE /\ lastError' = LastErrorAfter(lastError, o)
                 /\ IF ShouldSleep(attempt, maxRetries)
                    THEN pc' = "send_sleep" /\ UNCHANGED attempt
                    ELSE attempt' = attempt + 1 /\ pc' = LoopTest(attempt', maxRetries, notification)
                 /\ UNCHANGED << stack, sendRet >>
    /\ spawned' = spawned + 1
    /\ UNCHANGED << ZELLIJ, focus, entry, notifyVars, notification, pluginName, options,
                    maxRetries, retryDelay, payload, jsonPayload, command, received, warned,
                    allVars, resolveVars, cliVars >>

\* lines 184-185 and the loop increment: sleep, then the next attempt
SendSleep ==
    /\ pc = "send_sleep"
    /\ trace' = Append(trace, Ev("sleep", BackoffDelay(retryDelay, attempt), "-"))
    /\ attempt' = attempt + 1
    /\ pc' = LoopTest(attempt', maxRetries, notification)
    /\ UNCHANGED << ZELLIJ, focus, entry, notifyVars, stack, notification, pluginName, options,
                    maxRetries, retryDelay, payload, jsonPayload, command, received,
                    lastError, warned, spawned, sendRet,
                    allVars, resolveVars, cliVars >>

\* lines 194-206: after the loop
SendExhausted ==
    /\ pc = "send_exhausted"
    /\ IF lastError.set
       THEN IF lastError.timedOut
            THEN Finish(Raised(TimeoutError(pluginName, maxRetries + 1)))
            ELSE Finish(Raised(FailedError(maxRetries + 1)))
       ELSE Finish(Returned(FALSE))
    /\ UNCHANGED << ZELLIJ, focus, entry, notifyVars, notification, pluginName, options, maxRetries,
                    retryDelay, payload, jsonPayload, command, received, attempt,
                    lastError, trace, warned, spawned,
                    allVars, resolveVars, cliVars >>

sendNotification == SendStart \/ SendGoToTab \/ SendPipe \/ SendSleep \/ SendExhausted

\* lines 123-165 as text: the payload of a call made inside a session, its JSON
\* text, the command line of a pipe attempt and what the shell makes of it
SendPipeText ==
    /\ pc = "text_start"
    /\ isInZellijSession(TRUE)
    /\ payload' = BuildPayload(notification)
    /\ jsonPayload' = JSONStringify(payload')
    /\ command' = PipeCommand(pluginName, jsonPayload')
    /\ received' = ShellParse(command')
    /\ pc' = Head(stack)
    /\ stack' = Tail(stack)
    /\ UNCHANGED << ZELLIJ, focus, entry, notifyVars, notification, pluginName, options, maxRetries, retryDelay,
                    attempt, lastError, trace, warned, spawned, sendRet, allVars, resolveVars,
                    cliVars >>

----
\* getTabs and resolveTab

sTab == << "T", "a", "b", " " >>
sTrue == << "t", "r", "u", "e" >>
\* the tab declarations the regular expression of line 52 matches in the dumped
\* layout, in order: capture 1 is the name (absent for an unnamed tab), capture 2
\* the focus word; a failed or timed-out dump has ok = FALSE
DumpFailed == [ok |-> FALSE, decls |-> << >>]
DumpOf(names) ==
    [ok |-> TRUE,
     decls |-> [i \in 1..Len(names) |->
                  [name |-> names[i], focus |-> IF i = 1 THEN Str(sTrue) ELSE Undef]]]

\* lines 44-69 of getTabs, once the session check has passed
ParseTabs(dump) ==
    IF ~dump.ok THEN << >>
    ELSE [i \in 1..Len(dump.decls) |->
            [index |-> i,
             name |-> OrElse(dump.decls[i].name, Str(sTab \o IntToStr(i))).s,
             active |-> dump.decls[i].focus = Str(sTrue)]]

\* getTabs(): raises outside a session, else the parsed tabs
getTabs(alive, dump) ==
    IF ~isInZellijSession(alive)
    THEN [raised |-> TRUE, tabs |-> << >>]
    ELSE [raised |-> FALSE, tabs |-> ParseTabs(dump)]

\* the zellij child processes getTabs() starts: the probe, then the dump
GetTabsSpawned(alive) == Len(ProbeEvents(alive)) + (IF isInZellijSession(alive) THEN 1 ELSE 0)

\* parseInt(s, 10): leading white space, an optional sign, then the longest run of digits
RECURSIVE SkipSpaces(_)
SkipSpaces(s) == IF s # << >> /\ Head(s) = " " THEN SkipSpaces(Tail(s)) ELSE s

RECURSIVE DigitRun(_)
DigitRun(s) == IF s # << >> /\ IsDigit(Head(s)) THEN << Head(s) >> \o DigitRun(Tail(s)) ELSE << >>

RECURSIVE DecimalValue(_)
DecimalValue(ds) == IF ds = << >> THEN 0
                    ELSE 10 * DecimalValue(SubSeq(ds, 1, Len(ds) - 1)) + DigitVal(ds[Len(ds)])

parseInt(s) ==
    LET t == SkipSpaces(s)
        signed == t # << >> /\ Head(t) \in {"-", "+"}
        body == IF signed THEN Tail(t) ELSE t
        ds == DigitRun(body)
    IN  IF ds = << >> THEN NaN
        ELSE Num((IF signed /\ Head(t) = "-" THEN -1 ELSE 1) * DecimalValue(ds))

\* tabs.find(t => t.name === identifier): position of the first match, 0 if none
FindByName(ts, name) ==
    IF \E i \in 1..Len(ts) : ts[i].name = name
    THEN CHOOSE i \in 1..Len(ts) : ts[i].name = name /\ \A j \in 1..(i - 1) : ts[j].name # name
    ELSE 0

Resolved(v) == [status |-> "returned", value |-> v, error |-> NoErr]
ResolveRaised(e) == [status |-> "raised", value |-> Undef, error |-> e]
ResolvePending == [status |-> "none", value |-> Undef, error |-> NoErr]

\* the numeric reading is tried before the name match
resolveTab_parseFirst(id, alive, dump) ==
    IF id.t \in {"number", "nan"} THEN Resolved(id)
    ELSE LET got == getTabs(alive, dump)
             hit == FindByName(got.tabs, id.s)
             numId == parseInt(id.s)
         IN  IF got.raised THEN ResolveRaised(NotInSessionError)
             ELSE IF numId # NaN THEN Resolved(numId)
             ELSE IF hit # 0 THEN Resolved(Num(got.tabs[hit].index))
             ELSE ResolveRaised(TabNotFoundError(id.s))

\* lines 77-97 of resolveTab
resolveTab(id, alive, dump) ==
    IF id.t \in {"number", "nan"} THEN Resolved(id)
    ELSE LET got == getTabs(alive, dump)
             hit == FindByName(got.tabs, id.s)
             numId == parseInt(id.s)
         IN  IF got.raised THEN ResolveRaised(NotInSessionError)
             ELSE IF hit # 0 THEN Resolved(Num(got.tabs[hit].index))
             ELSE IF numId # NaN THEN Resolved(numId)
             ELSE ResolveRaised(TabNotFoundError(id.s))

\* the zellij child processes resolveTab starts
ResolveSpawned(id, alive) == IF id.t \in {"number", "nan"} THEN 0 ELSE GetTabsSpawned(alive)

sBackend == << "B", "a", "c", "k", "e", "n", "d" >>
sFrontend == << "F", "r", "o", "n", "t", "e", "n", "d" >>
sDatabase == << "D", "a", "t", "a", "b", "a", "s", "e" >>

TabNameInputs == {Undef, Str(sBackend), Str(sFrontend), Str(<< "3" >>)}
DumpInputs ==
    {DumpFailed} \cup {DumpOf(names) : names \in UNION {[1..k -> TabNameInputs] : k \in 0..MaxTabs}}

IdentifierInputs ==
    {Num(1), Num(7), Str(sBackend), Str(sFrontend), Str(sDatabase), Str(<< "3" >>),
     Str(<< "3", "x" >>), Str(<< " ", "2" >>), Str(<< "-", "1" >>), Str(<< "x", "3" >>)}

NotQueried == [queried |-> FALSE, raised |-> FALSE, tabs |-> << >>]

\* line 82: const tabs = getTabs(), not reached for a numeric identifier
ResolveLocalTabs(id, alive, dump) ==
    IF id.t \in {"number", "nan"} THEN NotQueried
    ELSE [queried |-> TRUE, raised |-> getTabs(alive, dump).raised,
          tabs |-> getTabs(alive, dump).tabs]

\* resolveTab called as an exported function
ResolveTab ==
    /\ pc = "resolve_start"
    /\ \E alive \in BOOLEAN, dump \in DumpInputs :
         /\ resolveRet' = resolveTab(identifier, alive, dump)
         /\ resolveTabs' = ResolveLocalTabs(identifier, alive, dump)
         /\ spawned' = spawned + ResolveSpawned(identifier, alive)
    /\ pc' = Head(stack)
    /\ stack' = Tail(stack)
    /\ UNCHANGED << ZELLIJ, focus, entry, notifyVars, identifier, sendVars, allVars, cliVars >>

----
\* sendNotificationToAllTabs

\* a call sendNotification(n, plugin, opts) whose return continues at returnTo
Invoke(n, plugin, opts, returnTo) ==
    /\ notification' = n
    /\ pluginName' = plugin
    /\ options' = opts
    /\ pc' = "send_start"
    /\ stack' = << returnTo >> \o stack

\* options = {}
NoOptions == [maxRetries |-> Undef, retryDelay |-> Undef]

\* what sendNotificationToAllTabs returns or raises
AllObject(total, success, errs) ==
    [status |-> "returned", total |-> Num(total), success |-> Num(success),
     errors |-> errs, hasErrors |-> TRUE, bool |-> FALSE, error |-> NoErr]
AllBoolean(b) ==
    [status |-> "returned", total |-> Undef, success |-> Undef,
     errors |-> << >>, hasErrors |-> FALSE, bool |-> b, error |-> NoErr]
AllRaised(e) ==
    [status |-> "raised", total |-> Undef, success |-> Undef,
     errors |-> << >>, hasErrors |-> FALSE, bool |-> FALSE, error |-> e]
AllPending ==
    [status |-> "none", total |-> Undef, success |-> Undef,
     errors |-> << >>, hasErrors |-> FALSE, bool |-> FALSE, error |-> NoErr]

\* the layouts offered where only the number of tabs and their order matter: a
\* failed dump, and k = 0..MaxTabs tabs of which the second is unnamed
LayoutOfSize(k) ==
    DumpOf([i \in 1..k |-> IF i = 1 THEN Str(sBackend)
                           ELSE IF i = 2 THEN Undef
                           ELSE Str(sFrontend \o IntToStr(i))])
SizedDumpInputs == {DumpFailed} \cup {LayoutOfSize(k) : k \in 0..MaxTabs}

\* the per-tab copy does not get the tab's index
WithTabIndex_unset(n, idx) == n

\* { ...notification, tabIndex: tab.index }
WithTabIndex(n, idx) == [n EXCEPT !.tabIndex = Num(idx)]

\* lines 223-239: the loop from position pos on, up to the next sendNotification call
AllContinue(pos, count, errs, done) ==
    /\ tabPos' = pos
    /\ successCount' = count
    /\ errors' = errs
    /\ IF pos <= Len(tabs')
       THEN /\ Invoke(WithTabIndex(allNotification, tabs'[pos].index), allPlugin, NoOptions,
                      "all_loop_ret")
            /\ calls' = Append(done, [tabIndex |-> notification'.tabIndex, ret |-> Pending])
            /\ allRet' = allRet
       ELSE /\ allRet' = AllObject(Len(tabs'), count, errs)
            /\ pc' = Head(stack)
            /\ stack' = Tail(stack)
            /\ calls' = done
            /\ UNCHANGED << notification, pluginName, options >>

\* lines 213-223: getTabs, the fallback, the first iteration
AllStart ==
    /\ pc = "all_start"
    /\ \E alive \in BOOLEAN, dump \in SizedDumpInputs :
         LET got == getTabs(alive, dump) IN
         /\ spawned' = spawned + GetTabsSpawned(alive)
         /\ tabs' = got.tabs
         /\ IF got.raised
            THEN /\ allRet' = AllRaised(NotInSessionError)
                 /\ pc' = Head(stack)
                 /\ stack' = Tail(stack)
                 /\ UNCHANGED << notification, pluginName, options, tabPos, successCount,
                                 errors, calls >>
            ELSE IF Len(got.tabs) = 0
            THEN /\ Invoke(allNotification, allPlugin, NoOptions, "all_fallback_ret")
                 /\ UNCHANGED << tabPos, successCount, errors, calls, allRet >>
            ELSE AllContinue(1, 0, << >>, << >>)
    /\ UNCHANGED << ZELLIJ, focus, entry, notifyVars, maxRetries, retryDelay, payload, jsonPayload, command,
                    received, attempt, lastError,
                    trace, warned, sendRet, allNotification, allPlugin, resolveVars, cliVars >>

\* line 217: return sendNotification(notification, pluginName)
AllFallbackReturn ==
    /\ pc = "all_fallback_ret"
    /\ allRet' = IF sendRet.status = "raised" THEN AllRaised(sendRet.error)
                 ELSE AllBoolean(sendRet.value)
    /\ pc' = Head(stack)
    /\ stack' = Tail(stack)
    /\ UNCHANGED << ZELLIJ, focus, entry, notifyVars, spawned, sendVars, allNotification, allPlugin, tabs,
                    tabPos, successCount, errors, calls, resolveVars, cliVars >>

\* lines 229-232, then the next iteration or the return
AllLoopReturn ==
    /\ pc = "all_loop_ret"
    /\ UNCHANGED tabs
    /\ LET done == [calls EXCEPT ![Len(calls)].ret = sendRet] IN
       IF sendRet.status = "raised"
       THEN AllContinue(tabPos + 1, successCount,
                        Append(errors, [tab |-> tabs[tabPos].name, error |-> sendRet.error]),
                        done)
       ELSE AllContinue(tabPos + 1, successCount + 1, errors, done)
    /\ UNCHANGED << ZELLIJ, focus, entry, notifyVars, spawned, maxRetries, retryDelay, payload, jsonPayload,
                    command, received, attempt,
                    lastError, trace, warned, sendRet, allNotification, allPlugin,
                    resolveVars, cliVars >>

sendNotificationToAllTabs == AllStart \/ AllFallbackReturn \/ AllLoopReturn

----
\* lib/config.js

HARP == << "c", "l", "a", "u", "d", "e", "-", "n", "o", "t", "i", "f", "i", "c", "a", "t", "i",
           "o", "n" >>
BELL == HARP \o << "-", "b", "e", "l", "l" >>

\* Object.values(SOUND_TYPES)
SOUND_TYPES == << HARP, BELL >>

\* the properties of a settings document the model follows; a document that lacks
\* one has Absent there
DocKeys == {"sound", "soundType", "desktopNotification", "webhook", "secondSound"}
NoDoc == [k \in DocKeys |-> Absent]

\* lines 15-24
defaultConfig ==
    [sound |-> Bool(TRUE), soundType |-> Str(HARP), desktopNotification |-> Bool(FALSE),
     webhook |-> Obj, secondSound |-> Absent]

\* { ...defaultConfig, ...userConfig }
Spread(d, u) == [k \in DocKeys |-> IF u[k] # Absent THEN u[k] ELSE d[k]]

\* what the file holds and what JSON.parse makes of it: invalid (no JSON text),
\* empty (no text at all, as right after the file was opened for writing), null,
\* primitive (a number or a boolean), indexed (a string or an array, whose spread
\* gives index properties), object
Content(kind, doc) == [kind |-> kind, doc |-> doc]
ParseErrors == {"invalid", "empty"}

\* a configuration getConfig returns: its properties, and whether it also has the
\* index properties of a spread string or array
Config(doc, indexed) == [doc |-> doc, indexed |-> indexed]

CfgReturned(c) == [status |-> "returned", value |-> c]
CfgRaised == [status |-> "raised", value |-> Config(NoDoc, FALSE)]
CfgPending == [status |-> "none", value |-> Config(NoDoc, FALSE)]

\* the error leaves getConfig
CatchError_rethrow == CfgRaised

\* lines 63-66: the catch of the read, the parse and the migration
CatchError == CfgReturned(Config(defaultConfig, FALSE))

\* the legacy flag alone asks for the migration
NeedsMigration1_flagOnly(u) == u.secondSound = Bool(TRUE)

\* line 38
NeedsMigration1(u) == u.secondSound = Bool(TRUE) /\ ~Truthy(Prop(u.soundType))

\* the legacy flag stays in the document
Migration1_keepsFlag(u) ==
    IF NeedsMigration1(u) THEN [u EXCEPT !.soundType = Str(BELL)] ELSE u

\* lines 38-42
Migration1(u) ==
    IF NeedsMigration1(u) THEN [u EXCEPT !.soundType = Str(BELL), !.secondSound = Absent]
    ELSE u

\* line 45
NeedsMigration2(u) == Truthy(Prop(u.soundType)) /\ ~Includes(SOUND_TYPES, u.soundType)

\* lines 45-49
Migration2(u) == IF NeedsMigration2(u) THEN [u EXCEPT !.soundType = Str(HARP)] ELSE u

\* the locals of one getConfig call, and what it read and wrote
Load(at, u, migrated, ret, read, wrote) ==
    [pc |-> at, userConfig |-> u, migrated |-> migrated, ret |-> ret, read |-> read,
     wrote |-> wrote]
NotRead == Content("none", NoDoc)
NewLoad == Load("cfg_exists", NoDoc, FALSE, CfgPending, NotRead, NotRead)
IdleLoad == Load("cfg_idle", NoDoc, FALSE, CfgPending, NotRead, NotRead)

Loads == 1..MaxLoads

\* line 26-28: fs.existsSync(configPath)
CfgExists(p) ==
    /\ loads[p].pc = "cfg_exists"
    /\ loads' = [loads EXCEPT ![p] =
                   IF ~file.exists
                   THEN [@ EXCEPT !.pc = "cfg_done", !.read = Content("absent", NoDoc),
                                  !.ret = CfgReturned(Config(defaultConfig, FALSE))]
                   ELSE [@ EXCEPT !.pc = "cfg_read"]]
    /\ UNCHANGED << zellijVars, file, player, cycle, listener >>

\* lines 31-62 up to the write: read, parse, the two migrations, and the return of
\* a load that has nothing to write back
CfgRead(p) ==
    /\ loads[p].pc = "cfg_read"
    /\ LET c == IF file.readable THEN file.content ELSE Content("unreadable", NoDoc)
           u == Migration2(Migration1(c.doc))
           m == NeedsMigration1(c.doc) \/ NeedsMigration2(Migration1(c.doc))
       IN  loads' = [loads EXCEPT ![p] =
                       IF c.kind \in ParseErrors \cup {"unreadable", "null"}
                       THEN [@ EXCEPT !.pc = "cfg_done", !.read = c, !.ret = CatchError]
                       ELSE IF m
                       THEN [@ EXCEPT !.pc = "cfg_write", !.read = c, !.userConfig = u,
                                      !.migrated = TRUE]
                       ELSE [@ EXCEPT !.pc = "cfg_done", !.read = c, !.userConfig = u,
                                      !.ret = CfgReturned(Config(Spread(defaultConfig, u),
                                                                 c.kind = "indexed"))]]
    /\ UNCHANGED << zellijVars, file, player, cycle, listener >>

\* lines 52-59, first half: ensureConfigDirectory finds the directory of the file
\* it has just read; writeFileSync opens the file for writing, which empties it,
\* or fails to open it; the failure is caught at line 57
CfgWriteOpen(p) ==
    /\ loads[p].pc = "cfg_write"
    /\ \E opened \in BOOLEAN :
         IF opened
         THEN /\ file' = [file EXCEPT !.content = Content("empty", NoDoc)]
              /\ loads' = [loads EXCEPT ![p].pc = "cfg_write_data"]
         ELSE /\ file' = [file EXCEPT !.failed = TRUE]
              /\ loads' = [loads EXCEPT ![p] =
                     [@ EXCEPT !.pc = "cfg_done",
                               !.ret = CfgReturned(Config(Spread(defaultConfig, loads[p].userConfig),
                                                          FALSE))]]
    /\ UNCHANGED << zellijVars, player, cycle, listener >>

\* lines 55-62, second half: the text is written, or the write fails and is caught
\* at line 57; then the return of line 62
CfgWriteData(p) ==
    /\ loads[p].pc = "cfg_write_data"
    /\ \E written \in BOOLEAN :
         LET text == Content("object", Spread(defaultConfig, loads[p].userConfig)) IN
         /\ file' = IF written THEN [file EXCEPT !.content = text, !.writes = @ + 1]
                     ELSE [file EXCEPT !.failed = TRUE]
         /\ loads' = [loads EXCEPT ![p] =
                [@ EXCEPT !.pc = "cfg_done",
                          !.wrote = IF written THEN text ELSE NotRead,
                          !.ret = CfgReturned(Config(Spread(defaultConfig, loads[p].userConfig),
                                                     FALSE))]]
    /\ UNCHANGED << zellijVars, player, cycle, listener >>

getConfig == \E p \in Loads : CfgExists(p) \/ CfgRead(p) \/ CfgWriteOpen(p) \/ CfgWriteData(p)

\* the settings file: initial is the content the first load found
SettingsFile(exists, readable, c) ==
    [exists |-> exists, readable |-> readable, content |-> c, initial |-> c, writes |-> 0,
     failed |-> FALSE]
NoFile == SettingsFile(FALSE, FALSE, Content("absent", NoDoc))

sBogusSound == << "c", "h", "i", "m", "e" >>

DocInputs ==
    {[NoDoc EXCEPT !.secondSound = f, !.soundType = t, !.sound = o] :
        f \in {Absent, Bool(TRUE), Bool(FALSE)},
        t \in {Absent, Null, Str(<< >>), Str(HARP), Str(BELL), Str(sBogusSound)},
        o \in {Absent, Bool(FALSE)}}

FileInputs ==
    {NoFile, SettingsFile(TRUE, FALSE, Content("object", NoDoc))}
    \cup {SettingsFile(TRUE, TRUE, Content(k, NoDoc)) :
             k \in {"invalid", "null", "primitive", "indexed"}}
    \cup {SettingsFile(TRUE, TRUE, Content("object", d)) : d \in DocInputs}

----
\* bin/claude-notify.js and its later version unnamed/part_001

Programs == {"claude-notify.js", "part_001"}
Platforms == {"linux", "darwin", "other"}

\* the bell flag is looked at before the override
resolveSoundType_bellFirst(c, useBell, soundTypeOverride, bellOverride) ==
    IF Truthy(bellOverride) \/ useBell THEN Str(BELL)
    ELSE IF Truthy(soundTypeOverride) /\ Includes(SOUND_TYPES, soundTypeOverride)
    THEN soundTypeOverride
    ELSE OrElse(c.soundType, Str(HARP))

\* part_001 lines 39-49; c is the loaded configuration
resolveSoundType(c, useBell, soundTypeOverride, bellOverride) ==
    IF Truthy(soundTypeOverride) /\ Includes(SOUND_TYPES, soundTypeOverride)
    THEN soundTypeOverride
    ELSE IF Truthy(bellOverride) \/ useBell THEN Str(BELL)
    ELSE OrElse(c.soundType, Str(HARP))

\* claude-notify.js lines 23-27
SelectSound(c, useBell) == IF useBell THEN Str(BELL) ELSE c.soundType

\* one playSound call: the program and platform it runs on, the configuration and
\* flag of the process, its arguments, the asset it chose, the commands it has
\* started, the bell characters it has written, and how it ended
Player(program, platform, c, useBell, soundTypeOverride, bellOverride) ==
    [program |-> program, platform |-> platform, config |-> c, useBell |-> useBell,
     soundTypeOverride |-> soundTypeOverride, bellOverride |-> bellOverride,
     pc |-> "play_start", soundType |-> Undef, started |-> << >>, bell |-> 0,
     warned |-> FALSE, ret |-> "none"]

IdlePlayer ==
    [Player("part_001", "linux", [sound |-> Bool(FALSE), soundType |-> Str(HARP)], FALSE,
            Undef, Undef) EXCEPT !.pc = "play_idle"]

Backends == {"paplay_quiet", "paplay", "aplay", "play", "afplay"}

\* the first command of the branch of process.platform
FirstStep(program, platform) ==
    CASE platform = "linux" -> IF program = "claude-notify.js" THEN "paplay_quiet" ELSE "paplay"
      [] platform = "darwin" -> "afplay"
      [] OTHER -> "play_done"

\* claude-notify.js lines 19-41, part_001 lines 52-62: the sound switch, the choice
\* of the asset, the test that its file exists, and the branch on the platform
PlayStart ==
    /\ player.pc = "play_start"
    /\ \E present \in BOOLEAN :
         LET old == player.program = "claude-notify.js"
             chosen == IF old THEN SelectSound(player.config, player.useBell)
                       ELSE resolveSoundType(player.config, player.useBell,
                                             player.soundTypeOverride, player.bellOverride)
             first == FirstStep(player.program, player.platform)
         IN  player' =
               IF ~Truthy(player.config.sound)
               THEN [player EXCEPT !.pc = "play_done", !.ret = "returned"]
               ELSE IF ~present
               THEN [player EXCEPT !.pc = "play_done", !.ret = "returned",
                                   !.soundType = chosen, !.warned = TRUE,
                                   !.bell = IF old THEN @ + 1 ELSE @]
               ELSE [player EXCEPT !.pc = first, !.soundType = chosen,
                                   !.ret = IF first = "play_done" THEN "returned" ELSE @,
                                   !.bell = IF first = "play_done" /\ old THEN @ + 1 ELSE @]
    /\ UNCHANGED << zellijVars, configVars, cycle, listener >>

\* claude-notify.js lines 42-63, part_001 lines 66-80: one execSync of a player
\* command, which plays, fails, or never ends: no timeout is given, so execSync
\* then never returns; the quiet paplay ends in || true and never raises; the
\* catch of a failure starts the next command, and in claude-notify.js the last
\* catch writes the bell character
ExecSync ==
    /\ player.pc \in Backends
    /\ \E o \in {"ok", "fail", "hang"} :
         LET at == player.pc
             ok == o = "ok"
             old == player.program = "claude-notify.js"
             raised == ~ok /\ at # "paplay_quiet"
             next == IF o = "hang" THEN "play_hung"
                     ELSE IF at = "paplay_quiet" THEN "paplay"
                     ELSE IF raised /\ at = "paplay" THEN "aplay"
                     ELSE IF raised /\ at = "aplay" THEN "play"
                     ELSE "play_done"
             cmd == IF at = "paplay_quiet" THEN "paplay" ELSE at
         IN  player' =
               [player EXCEPT
                  !.pc = next,
                  !.started = Append(@, [cmd |-> cmd, asset |-> player.soundType, ok |-> ok]),
                  !.bell = IF raised /\ next = "play_done" /\ old THEN @ + 1 ELSE @,
                  !.ret = IF next = "play_done" THEN "returned" ELSE @]
    /\ UNCHANGED << zellijVars, configVars, cycle, listener >>

playSound == PlayStart \/ ExecSync

\* the configurations getConfig hands to the program: the sound switch and an asset
\* name, which is null when the stored document says so
ConfigInputs ==
    {[sound |-> o, soundType |-> t] :
        o \in {Bool(TRUE), Bool(FALSE)}, t \in {Str(HARP), Str(BELL), Null}}

OverrideInputs == {Undef, Str(HARP), Str(BELL), Str(sBogusSound), Str(<< >>)}

PlayerInputs ==
    {Player("claude-notify.js", f, c, b, Undef, Undef) :
        f \in Platforms, c \in ConfigInputs, b \in BOOLEAN}
    \cup {Player("part_001", f, c, b, o, bo) :
        f \in Platforms, c \in ConfigInputs, b \in BOOLEAN, o \in OverrideInputs,
        bo \in {Undef, Bool(TRUE), Bool(FALSE)}}

----
\* unnamed/part_001: the remote sound relay, client side

sHttp == << "h", "t", "t", "p" >>
sHttps == << "h", "t", "t", "p", "s" >>
sLoopback == << "h", "t", "t", "p", ":", "/", "/", "1", "2", "7", ".", "0", ".", "0", ".", "1",
       ":" >>
sNotifyPath == << "/", "n", "o", "t", "i", "f", "y" >>

\* URLs and ports of the sample settings and environments
sHttpUrl == << "h", "t", "t", "p", ":", "/", "/", "h", "/", "n" >>
sHttpsUrl == << "h", "t", "t", "p", "s", ":", "/", "/", "h", "/", "n" >>
sFtpUrl == << "f", "t", "p", ":", "/", "/", "h", "/", "n" >>
sNoUrl == << "n", "o", "p", "e" >>
sPort == << "1", "7", "7", "7", "7" >>
sBadPort == << "x", "1" >>

\* the position of the first c in s at or after position i, 0 when there is none
IndexFrom(s, c, i) ==
    LET at == {k \in i..Len(s) : s[k] = c}
    IN  IF at = {} THEN 0 ELSE CHOOSE k \in at : \A j \in at : k <= j

\* new URL(text): a text without a scheme does not parse; an http, https or ftp
\* URL needs // and a host, and a port of digits when it has a colon after the
\* host; protocol is the scheme, without its colon
ParseURL(text) ==
    LET colon == IndexFrom(text, ":", 1)
        scheme == SubSeq(text, 1, colon - 1)
        slash == IndexFrom(text, "/", colon + 3)
        authority == SubSeq(text, colon + 3, IF slash = 0 THEN Len(text) ELSE slash - 1)
        portAt == IndexFrom(authority, ":", 1)
        port == SubSeq(authority, portAt + 1, Len(authority))
        bad == [ok |-> FALSE, protocol |-> << >>]
    IN  IF colon <= 1 THEN bad
        ELSE IF SubSeq(text, colon + 1, colon + 2) # << "/", "/" >> THEN bad
        ELSE IF authority = << >> \/ portAt = 1 THEN bad
        ELSE IF portAt > 0 /\ \E k \in 1..Len(port) : ~IsDigit(port[k]) THEN bad
        ELSE [ok |-> TRUE, protocol |-> scheme]

\* protocol.request(url, ...) of the module chosen for the URL raises at once when
\* the URL does not parse or its protocol is not the one of the module
RequestRaises(text, module) == ~ParseURL(text).ok \/ ParseURL(text).protocol # module

\* the environment variables the program reads
Env(zellij, conn, tty, remoteUrl, remotePort) ==
    [ZELLIJ |-> zellij, SSH_CONNECTION |-> conn, SSH_CLIENT |-> Undef, SSH_TTY |-> tty,
     CLAUDE_NOTIFY_REMOTE_URL |-> remoteUrl, CLAUDE_NOTIFY_REMOTE |-> Undef,
     CLAUDE_NOTIFY_REMOTE_PORT |-> remotePort]

\* the session test always answers yes
isSshSession_always(env) == TRUE

\* lines 35-37
isSshSession(env) ==
    Truthy(OrElse(OrElse(env.SSH_CONNECTION, env.SSH_CLIENT), env.SSH_TTY))

\* config.remoteSound and its properties
RemoteSound(enabled, url, port, replaceSound) ==
    [enabled |-> enabled, url |-> url, port |-> port, replaceSound |-> replaceSound,
     timeoutMs |-> Absent]

NoTarget == [set |-> FALSE, url |-> << >>, replaceSound |-> FALSE, timeoutMs |-> 0]

\* lines 85-117
resolveRemoteSoundConfig(c, env) ==
    LET remoteConfig == IF c.remoteSound = Absent
                        THEN RemoteSound(Absent, Absent, Absent, Absent)
                        ELSE c.remoteSound
        envUrl == OrElse(env.CLAUDE_NOTIFY_REMOTE_URL, env.CLAUDE_NOTIFY_REMOTE)
        envPort == env.CLAUDE_NOTIFY_REMOTE_PORT
        enabled == \/ Truthy(remoteConfig.enabled) \/ Truthy(envUrl) \/ Truthy(envPort)
                   \/ Truthy(remoteConfig.url) \/ Truthy(remoteConfig.port)
        port == OrElse(envPort, Prop(remoteConfig.port))
        url == IF Truthy(envUrl) THEN envUrl
               ELSE IF Truthy(remoteConfig.url) THEN remoteConfig.url
               ELSE IF Truthy(port) THEN Str(sLoopback \o ToText(port) \o sNotifyPath)
               ELSE Null
    IN  IF ~enabled \/ ~Truthy(url) THEN NoTarget
        ELSE [set |-> TRUE, url |-> ToText(url),
              replaceSound |-> Truthy(remoteConfig.replaceSound),
              timeoutMs |-> IF remoteConfig.timeoutMs.t = "number" /\ remoteConfig.timeoutMs.n # 0
                            THEN remoteConfig.timeoutMs.n ELSE 1500]

----
\* unnamed/part_001 and bin/claude-notify.js: main

\* the loaded configuration as main reads it
MainConfig(sound, desktop, webhook, visualization, remoteSound) ==
    [sound |-> sound, soundType |-> Str(HARP), desktopNotification |-> desktop,
     webhook |-> webhook, zellijVisualization |-> visualization, remoteSound |-> remoteSound]

Webhook(enabled, url, replaceSound) ==
    [enabled |-> enabled, url |-> url, replaceSound |-> replaceSound]

\* one run of the program: sent lists the requests and commands of the accessory
\* channels in the order they were issued, webhook and relay are the states of
\* the two HTTP requests, served whether the listener played the sound for the
\* relay request, exit is -1 while the process lives
Cycle(program, mode, c, env) ==
    [program |-> program, mode |-> mode, config |-> c, env |-> env, pc |-> "main_start",
     sent |-> << >>, webhook |-> "none", relay |-> "none", target |-> NoTarget,
     remoteReplaced |-> FALSE, served |-> FALSE, raised |-> "none", exit |-> -1]

IdleCycle ==
    [Cycle("part_001", "default",
           MainConfig(Bool(FALSE), Bool(FALSE), Webhook(Bool(FALSE), Null, Bool(FALSE)),
                      Absent, Absent),
           Env(Undef, Undef, Undef, Undef, Undef)) EXCEPT !.pc = "main_idle"]

\* the sound plays whatever the webhook settings are
shouldPlaySound_ignoresWebhook(c) == Truthy(c.sound)

\* part_001 line 417; in claude-notify.js lines 182-188 together with the test of
\* config.sound in playSound
shouldPlaySound(c) ==
    Truthy(c.sound) /\ ~(Truthy(c.webhook.enabled) /\ Truthy(c.webhook.replaceSound))

\* a delivered relay always replaces the local sound
RemoteReplaced_delivered(delivered, target) == delivered

\* line 175: delivered ? remoteConfig.replaceSound : false
RemoteReplaced(delivered, target) == IF delivered THEN target.replaceSound ELSE FALSE

\* the playSound call of main
MainPlayer(c) ==
    Player(c.program, "linux", [sound |-> c.config.sound, soundType |-> c.config.soundType],
           FALSE,
           IF c.program = "part_001"
           THEN resolveSoundType(c.config, FALSE, Undef, Undef) ELSE Undef,
           Undef)

\* an error of channel by leaves main: part_001 lines 432-435 log it and exit with
\* 1; in claude-notify.js it is an uncaught exception, which ends the process with 1
MainRaised(c, by) == [c EXCEPT !.pc = "exited", !.raised = by, !.exit = 1]

\* part_001 lines 399-411 and 266-310, claude-notify.js lines 176-180: the config
\* dump, the listen mode, and the visualization pipe, whose execSync has a timeout
\* and whose failure is caught
MainStart ==
    /\ cycle.pc = "main_start"
    /\ \E piped \in BOOLEAN :
         LET visualize == /\ cycle.program = "part_001"
                          /\ cycle.config.zellijVisualization # Absent
                          /\ Truthy(cycle.config.zellijVisualization)
                          /\ Truthy(cycle.env.ZELLIJ)
         IN  cycle' =
               IF cycle.mode = "config" THEN [cycle EXCEPT !.pc = "main_end"]
               ELSE IF cycle.mode = "listen" /\ cycle.program = "part_001"
               THEN [cycle EXCEPT !.pc = "main_listening"]
               ELSE [cycle EXCEPT
                       !.pc = "main_webhook",
                       !.sent = IF visualize
                                THEN Append(@, IF piped THEN "zellij" ELSE "zellij_failed")
                                ELSE @]
    /\ UNCHANGED << zellijVars, configVars, player, listener >>

\* part_001 lines 413-415 and 234-264, claude-notify.js lines 182-183 and 69-99:
\* triggerWebhook returns without a URL; protocol.request raises on a URL it
\* cannot use, and nothing catches that; else the POST is on its way
triggerWebhook ==
    /\ cycle.pc = "main_webhook"
    /\ LET w == cycle.config.webhook
           module == IF Len(w.url.s) >= 5 /\ SubSeq(w.url.s, 1, 5) = sHttps THEN sHttps ELSE sHttp
       IN  cycle' =
             IF ~Truthy(w.enabled) \/ ~Truthy(w.url) THEN [cycle EXCEPT !.pc = "main_sound"]
             ELSE IF RequestRaises(w.url.s, module) THEN MainRaised(cycle, "webhook")
             ELSE [cycle EXCEPT !.pc = "main_sound", !.webhook = "sent",
                                !.sent = Append(@, "webhook")]
    /\ UNCHANGED << zellijVars, configVars, player, listener >>

\* part_001 lines 417-423 with triggerRemoteSound and sendJson up to req.end(),
\* claude-notify.js lines 184-188: without a target or outside an SSH session, and
\* for a URL that does not parse, the relay answers false at once; a URL that is
\* neither http nor https makes protocol.request raise inside the promise, which
\* rejects it; else the POST is on its way
triggerRemoteSound ==
    /\ cycle.pc = "main_sound"
    /\ LET old == cycle.program = "claude-notify.js"
           target == resolveRemoteSoundConfig(cycle.config, cycle.env)
           url == ParseURL(target.url)
           plays == IF old
                    THEN ~(Truthy(cycle.config.webhook.enabled)
                           /\ Truthy(cycle.config.webhook.replaceSound))
                    ELSE shouldPlaySound(cycle.config)
           local == old \/ ~target.set \/ ~isSshSession(cycle.env) \/ ~url.ok
       IN  IF ~plays
           THEN cycle' = [cycle EXCEPT !.pc = "main_desktop"] /\ UNCHANGED player
           ELSE IF local
           THEN /\ cycle' = [cycle EXCEPT !.pc = "main_play",
                                          !.target = IF old THEN NoTarget ELSE target]
                /\ player' = MainPlayer(cycle)
           ELSE IF url.protocol \notin {sHttp, sHttps}
           THEN cycle' = [MainRaised(cycle, "relay") EXCEPT !.target = target] /\ UNCHANGED player
           ELSE /\ cycle' = [cycle EXCEPT !.pc = "main_relay", !.target = target,
                                          !.relay = "sent", !.sent = Append(@, "relay")]
                /\ UNCHANGED player
    /\ UNCHANGED << zellijVars, configVars, listener >>

\* the answers to the relay POST: a 2xx response, another response, a connection
\* error, and no answer until the timer of line 151 fires
RelayOutcomes == {"2xx", "other", "error", "timeout"}

\* what the listener has done with the request when the promise of sendJson
\* resolves with o (lines 204-221): its 204 follows its playSound call, its 400 and
\* 404 are sent without one, and the timer or a connection error on the client
\* side may come before or after the listener has played
ServedWhen(o) ==
    CASE o = "2xx" -> {TRUE}
      [] o = "other" -> {FALSE}
      [] OTHER -> BOOLEAN

\* part_001 lines 141-154, 175 and 421-423: the promise of sendJson resolves, and
\* main plays the local sound unless the relay replaced it
RelaySettle ==
    /\ cycle.pc = "main_relay"
    /\ \E o \in RelayOutcomes : \E played \in ServedWhen(o) :
         LET replaced == RemoteReplaced(o = "2xx", cycle.target)
         IN  /\ cycle' = [cycle EXCEPT !.relay = o, !.remoteReplaced = replaced,
                                       !.served = played,
                                       !.pc = IF replaced THEN "main_desktop" ELSE "main_play"]
             /\ player' = IF replaced THEN player ELSE MainPlayer(cycle)
    /\ UNCHANGED << zellijVars, configVars, listener >>

\* part_001 lines 424-428, claude-notify.js lines 189-191: playSound is back, or
\* was not called; the desktop banner
showNotification ==
    /\ \/ cycle.pc = "main_desktop"
       \/ cycle.pc = "main_play" /\ player.pc = "play_done"
    /\ cycle' = [cycle EXCEPT
                   !.pc = "main_end",
                   !.sent = IF ~Truthy(cycle.config.webhook.enabled)
                               /\ Truthy(cycle.config.desktopNotification)
                            THEN Append(@, "desktop") ELSE @]
    /\ UNCHANGED << zellijVars, configVars, player, listener >>

\* part_001 lines 252-260: the webhook POST is answered, fails with an error that
\* is logged, or gets no answer at all; the request has no timeout; its callbacks
\* run when main awaits the relay or is over, not during its synchronous steps
WebhookSettle ==
    /\ cycle.webhook = "sent"
    /\ cycle.pc \in {"main_relay", "main_end"}
    /\ \E o \in {"answered", "error", "silent"} : cycle' = [cycle EXCEPT !.webhook = o]
    /\ UNCHANGED << zellijVars, configVars, player, listener >>

\* main is over and no request is pending: the process ends with status 0
ProcessExit ==
    /\ cycle.pc = "main_end"
    /\ cycle.webhook \in {"none", "answered", "error"}
    /\ cycle' = [cycle EXCEPT !.pc = "exited", !.exit = 0]
    /\ UNCHANGED << zellijVars, configVars, player, listener >>

notifyMain == \/ MainStart \/ triggerWebhook \/ triggerRemoteSound \/ RelaySettle
              \/ showNotification \/ WebhookSettle \/ ProcessExit

----
\* unnamed/part_001: the remote sound relay, server side

\* line 199: 1024 * 64
Ceiling == 65536

Conns == 1..MaxConns

\* a connection: none (not open), open (no request in progress), reading (the
\* handler waits for the body of request req), destroyed
Conn(state, req) == [state |-> state, req |-> req]

\* a request: what the client sends, the bytes and the characters of the body
\* received so far, and whether its handling is over
Request(method, url, body) ==
    [method |-> method, url |-> url, body |-> body, chunks |-> 0, bytes |-> 0, chars |-> 0,
     ended |-> FALSE]

\* the bodies a client sends: none, a JSON object, the JSON text null, no JSON
RequestInputs ==
    {Request("POST", "/notify", b) : b \in {"empty", "object", "null", "malformed"}}
    \cup {Request("GET", "/notify", "empty"), Request("POST", "/other", "object")}

\* the chunks of a body: a few characters, a full ceiling of one-byte characters,
\* and a full ceiling of bytes that are three-byte characters
ChunkInputs ==
    {[bytes |-> 4, chars |-> 4], [bytes |-> Ceiling, chars |-> Ceiling],
     [bytes |-> Ceiling, chars |-> Ceiling \div 3]}

\* the server of --listen: log lists what was done for which request, in order
Listener(once) ==
    [once |-> once, state |-> "listening", conns |-> [c \in Conns |-> Conn("none", 0)],
     reqs |-> << >>, log |-> << >>]

IdleListener == [Listener(FALSE) EXCEPT !.state = "idle"]

Did(req, what) == [req |-> req, what |-> what]

\* a client connects; a closed server accepts no connection
Connect(c) ==
    /\ listener.state = "listening"
    /\ listener.conns[c].state = "none"
    /\ listener' = [listener EXCEPT !.conns[c] = Conn("open", 0)]
    /\ UNCHANGED << zellijVars, configVars, player, cycle >>

\* lines 189-202: the request handler is called with the head of a request; a
\* wrong method or path is answered 404 at once, else the body is awaited
RequestHead(c) ==
    /\ listener.state \in {"listening", "closed"}
    /\ listener.conns[c].state = "open"
    /\ Len(listener.reqs) < MaxRequests
    /\ \E r \in RequestInputs :
         LET id == Len(listener.reqs) + 1
             found == r.method = "POST" /\ r.url = "/notify"
         IN  listener' =
               IF found
               THEN [listener EXCEPT !.reqs = Append(@, r), !.conns[c] = Conn("reading", id)]
               ELSE [listener EXCEPT !.reqs = Append(@, [r EXCEPT !.ended = TRUE]),
                                     !.log = Append(@, Did(id, "404"))]
    /\ UNCHANGED << zellijVars, configVars, player, cycle >>

\* lines 197-202: a chunk is appended to the body text, and the request is
\* destroyed when the text is longer than the ceiling
RequestData(c) ==
    /\ listener.state \in {"listening", "closed"}
    /\ listener.conns[c].state = "reading"
    /\ LET id == listener.conns[c].req IN
       /\ listener.reqs[id].body # "empty"
       /\ listener.reqs[id].chunks < MaxChunks
       /\ \E k \in ChunkInputs :
            LET r == [listener.reqs[id] EXCEPT !.chunks = @ + 1, !.bytes = @ + k.bytes,
                                               !.chars = @ + k.chars]
            IN  listener' =
                  IF r.chars > Ceiling
                  THEN [listener EXCEPT !.reqs[id] = [r EXCEPT !.ended = TRUE],
                                        !.conns[c] = Conn("destroyed", id)]
                  ELSE [listener EXCEPT !.reqs[id] = r]
    /\ UNCHANGED << zellijVars, configVars, player, cycle >>

\* server.close(): no new connection is accepted; connections with a request in
\* progress stay, and those without one are closed or kept, as the runtime does
ServerClose(l, dropIdle) ==
    [l EXCEPT !.state = "closed",
              !.conns = [c \in Conns |->
                           IF dropIdle /\ l.conns[c].state = "open" THEN Conn("none", 0)
                           ELSE l.conns[c]]]

\* lines 204-226: the body is complete; a text that is no JSON is answered 400;
\* the properties of the parsed value are read, which raises for null, and nothing
\* catches that: the process ends; else playSound, then 204, then the close of
\* --once
RequestEnd(c) ==
    /\ listener.state \in {"listening", "closed"}
    /\ listener.conns[c].state = "reading"
    /\ LET id == listener.conns[c].req
           r == listener.reqs[id]
       IN
       /\ r.body = "empty" <=> r.chunks = 0
       /\ \E dropIdle \in BOOLEAN :
            LET over == [listener EXCEPT !.reqs[id].ended = TRUE, !.conns[c] = Conn("open", 0)]
                served == [over EXCEPT !.log = @ \o << Did(id, "play"), Did(id, "204") >>]
            IN  listener' =
                  IF r.body = "malformed" THEN [over EXCEPT !.log = Append(@, Did(id, "400"))]
                  ELSE IF r.body = "null"
                  THEN [over EXCEPT !.state = "crashed",
                                    !.conns = [d \in Conns |-> Conn("none", 0)]]
                  ELSE IF listener.once THEN ServerClose(served, dropIdle)
                  ELSE served
    /\ UNCHANGED << zellijVars, configVars, player, cycle >>

startRemoteListener ==
    \E c \in Conns : Connect(c) \/ RequestHead(c) \/ RequestData(c) \/ RequestEnd(c)

----
\* bin/zellij-notify.js

HelpFlags == {<< "-", "h" >>, << "-", "-", "h", "e", "l", "p" >>}
ListTabsFlags == {<< "-", "l" >>, << "-", "-", "l", "i", "s", "t", "-", "t", "a", "b", "s" >>}
TabNameFlags == {<< "-", "n" >>, << "-", "-", "t", "a", "b", "-", "n", "a", "m", "e" >>}
TabIndexFlags == {<< "-", "i" >>, << "-", "-", "t", "a", "b", "-", "i", "n", "d", "e", "x" >>}
AllFlags == {<< "-", "a" >>, << "-", "-", "a", "l", "l" >>}
TypeFlags == {<< "-", "t" >>, << "-", "-", "t", "y", "p", "e" >>}
PriorityFlags == {<< "-", "p" >>, << "-", "-", "p", "r", "i", "o", "r", "i", "t", "y" >>}
TitleFlags == {<< "-", "-", "t", "i", "t", "l", "e" >>}
TtlFlags == {<< "-", "-", "t", "t", "l" >>}
DismissableFlags ==
    {<< "-", "d" >>, << "-", "-", "d", "i", "s", "m", "i", "s", "s", "a", "b", "l", "e" >>}
QuickFlags == {<< "-", "q" >>, << "-", "-", "q", "u", "i", "c", "k" >>}
PluginFlags == {<< "-", "-", "p", "l", "u", "g", "i", "n" >>}
\* parseInt(value, 10) of an argument that may be undefined
ParseIntArg(v) == IF v.t = "string" THEN parseInt(v.s) ELSE NaN

\* parseFloat(value) for arguments written without '.', exponent or 'Infinity'
parseFloat(v) == IF v.t = "string" THEN parseInt(v.s) ELSE NaN

\* arg.startsWith('-')
StartsWithDash(a) == a # << >> /\ Head(a) = "-"

\* lines 141-154
DefaultOptions ==
    [message |-> Null, tabName |-> Null, tabIndex |-> Null, all |-> FALSE,
     type |-> Str(sInfo), priority |-> Str(sNormal), title |-> Str(sNotification),
     ttl |-> Num(300), dismissable |-> FALSE, pluginName |-> Str(sDefaultPlugin),
     listTabs |-> FALSE, help |-> FALSE]

ParseOk(o) == [threw |-> FALSE, error |-> NoErr, options |-> o]
ParseThrew(e, o) == [threw |-> TRUE, error |-> e, options |-> o]

TabIndexError == Err("Tab index must be a number", 0, << >>)
InvalidTypeError(v) ==
    [kind |-> "Invalid type", n |-> 0, name |-> ToText(v), allowed |-> NOTIFICATION_TYPES]
InvalidPriorityError(v) ==
    [kind |-> "Invalid priority", n |-> 0, name |-> ToText(v), allowed |-> PRIORITIES]
TtlError == Err("TTL must be a positive number", 0, << >>)
UnknownOptionError(a) == Err("Unknown option", 0, a)

\* args[++i]
ArgAt(as, i) == IF i <= Len(as) THEN Str(as[i]) ELSE Undef

\* lines 156-242: the while loop of parseArgs from position i with options o
RECURSIVE ParseFrom(_, _, _)
ParseFrom(as, i, o) ==
    IF i > Len(as) THEN ParseOk(o)
    ELSE LET arg == as[i]
             val == ArgAt(as, i + 1)
         IN  IF arg \in HelpFlags THEN ParseOk([o EXCEPT !.help = TRUE])
             ELSE IF arg \in ListTabsFlags THEN ParseOk([o EXCEPT !.listTabs = TRUE])
             ELSE IF arg \in TabNameFlags
                  THEN ParseFrom(as, i + 2, [o EXCEPT !.tabName = val])
             ELSE IF arg \in TabIndexFlags
                  THEN IF ParseIntArg(val) = NaN
                       THEN ParseThrew(TabIndexError, [o EXCEPT !.tabIndex = NaN])
                       ELSE ParseFrom(as, i + 2, [o EXCEPT !.tabIndex = ParseIntArg(val)])
             ELSE IF arg \in AllFlags THEN ParseFrom(as, i + 1, [o EXCEPT !.all = TRUE])
             ELSE IF arg \in TypeFlags
                  THEN IF ~Includes(NOTIFICATION_TYPES, val)
                       THEN ParseThrew(InvalidTypeError(val), [o EXCEPT !.type = val])
                       ELSE ParseFrom(as, i + 2, [o EXCEPT !.type = val])
             ELSE IF arg \in PriorityFlags
                  THEN IF ~Includes(PRIORITIES, val)
                       THEN ParseThrew(InvalidPriorityError(val), [o EXCEPT !.priority = val])
                       ELSE ParseFrom(as, i + 2, [o EXCEPT !.priority = val])
             ELSE IF arg \in TitleFlags THEN ParseFrom(as, i + 2, [o EXCEPT !.title = val])
             ELSE IF arg \in TtlFlags
                  THEN IF parseFloat(val) = NaN \/ parseFloat(val).n < 0
                       THEN ParseThrew(TtlError, [o EXCEPT !.ttl = parseFloat(val)])
                       ELSE ParseFrom(as, i + 2, [o EXCEPT !.ttl = parseFloat(val)])
             ELSE IF arg \in DismissableFlags
                  THEN ParseFrom(as, i + 1, [o EXCEPT !.dismissable = TRUE])
             ELSE IF arg \in QuickFlags THEN ParseFrom(as, i + 1, [o EXCEPT !.ttl = Num(5)])
             ELSE IF arg \in PluginFlags THEN ParseFrom(as, i + 2, [o EXCEPT !.pluginName = val])
             ELSE IF StartsWithDash(arg) THEN ParseThrew(UnknownOptionError(arg), o)
             ELSE ParseFrom(as, i + 1, [o EXCEPT !.message = Str(arg)])

parseArgs(as) == ParseFrom(as, 1, DefaultOptions)

\* a line written by console.log (stdout) or console.error (stderr)
Line(stream, text, err, a, b) == [stream |-> stream, text |-> text, err |-> err, a |-> a, b |-> b]
ErrorLine(e) == Line("stderr", "Error: ${error.message}", e, Undef, Undef)
HelpLines == << Line("stdout", "help", NoErr, Undef, Undef) >>

\* printTabs(): alive1 is the probe of its own session check, alive2 the probe inside
\* getTabs; exit is the status it ends the process with (-1: it returns), threw
\* whether getTabs raised
printTabs(alive1, alive2, dump) ==
    IF ~isInZellijSession(alive1)
    THEN [exit |-> 1, threw |-> FALSE, spawned |-> Len(ProbeEvents(alive1)),
          lines |-> << Line("stderr", "Error: Not in a Zellij session", NoErr, Undef, Undef) >>]
    ELSE LET got == getTabs(alive2, dump)
             n == 1 + GetTabsSpawned(alive2)
         IN  IF got.raised
             THEN [exit |-> -1, threw |-> TRUE, spawned |-> n, lines |-> << >>]
             ELSE IF Len(got.tabs) = 0
             THEN [exit |-> -1, threw |-> FALSE, spawned |-> n,
                   lines |-> << Line("stdout", "No tabs found (or unable to parse tabs)",
                                     NoErr, Undef, Undef) >>]
             ELSE [exit |-> -1, threw |-> FALSE, spawned |-> n,
                   lines |-> << Line("stdout", "Zellij Tabs", NoErr, Num(Len(got.tabs)), Undef) >>]

\* every way out of the program reports success
Exit_alwaysZero(code) == pc' = "exit" /\ exitCode' = 0

\* process.exit(code), or the end of main with code 0
Exit(code) == pc' = "exit" /\ exitCode' = code

\* lines 246-266 up to printTabs: no arguments, parseArgs, --help
CliParse ==
    /\ pc = "cli_start"
    /\ IF Len(args) = 0
       THEN /\ out' = out \o HelpLines
            /\ Exit(0)
            /\ UNCHANGED cliOptions
       ELSE LET r == parseArgs(args) IN
            /\ cliOptions' = r.options
            /\ IF r.threw
               THEN out' = Append(out, ErrorLine(r.error)) /\ Exit(1)
               ELSE IF r.options.help
               THEN out' = out \o HelpLines /\ Exit(0)
               ELSE IF r.options.listTabs
               THEN pc' = "cli_list" /\ UNCHANGED << out, exitCode >>
               ELSE pc' = "cli_session" /\ UNCHANGED << out, exitCode >>
    /\ UNCHANGED << ZELLIJ, focus, entry, notifyVars, stack, spawned, sendVars, allVars, resolveVars, args,
                    cliNotification >>

\* lines 263-266: printTabs() and exit 0; an exception of getTabs reaches line 336
CliListTabs ==
    /\ pc = "cli_list"
    /\ \E alive1 \in BOOLEAN, alive2 \in BOOLEAN, dump \in SizedDumpInputs :
         LET r == printTabs(alive1, alive2, dump) IN
         /\ spawned' = spawned + r.spawned
         /\ IF r.threw
            THEN out' = Append(out, ErrorLine(NotInSessionError)) /\ Exit(1)
            ELSE out' = out \o r.lines /\ Exit(IF r.exit = 1 THEN 1 ELSE 0)
    /\ UNCHANGED << ZELLIJ, focus, entry, notifyVars, stack, sendVars, allVars, resolveVars, args, cliOptions,
                    cliNotification >>

\* default parameter: the default applies when the argument is undefined
DefaultParam(v, d) == IF v.t = "undefined" THEN d ELSE v

\* lines 284-299: the notification main builds from the options
CliBuildNotification(o) ==
    [type |-> o.type, message |-> o.message, title |-> o.title, priority |-> o.priority,
     source |-> Str(sZellijNotify),
     ttl |-> IF o.dismissable THEN Null ELSE Num(o.ttl.n * 1000),
     tabIndex |-> Absent]

\* lines 268-334 up to the first library call: session check, message check,
\* notification, choice of the target
CliSession ==
    /\ pc = "cli_session"
    /\ \E alive \in BOOLEAN :
         /\ spawned' = spawned + Len(ProbeEvents(alive))
         /\ IF ~isInZellijSession(alive)
            THEN /\ out' = out \o << Line("stderr", "Error: Not in a Zellij session", NoErr, Undef, Undef),
                                     Line("stderr", "Launch Zellij first", NoErr, Undef, Undef) >>
                 /\ Exit(1)
                 /\ UNCHANGED << stack, sendVars, allVars, resolveVars, cliNotification >>
            ELSE IF ~Truthy(cliOptions.message)
            THEN /\ out' = out \o << Line("stderr", "Error: Message is required", NoErr, Undef, Undef),
                                     Line("stderr", "Usage: zellij-notify [OPTIONS] <MESSAGE>", NoErr, Undef, Undef) >>
                 /\ Exit(1)
                 /\ UNCHANGED << stack, sendVars, allVars, resolveVars, cliNotification >>
            ELSE /\ cliNotification' = CliBuildNotification(cliOptions)
                 /\ UNCHANGED << out, exitCode >>
                 /\ IF cliOptions.all
                    THEN /\ allNotification' = cliNotification'
                         /\ allPlugin' = DefaultParam(cliOptions.pluginName, Str(sDefaultPlugin)).s
                         /\ pc' = "all_start"
                         /\ stack' = << "cli_all_ret" >> \o stack
                         /\ UNCHANGED << sendVars, tabs, tabPos, successCount, errors, calls,
                                         allRet, resolveVars >>
                    ELSE IF Truthy(OrElse(cliOptions.tabName, cliOptions.tabIndex))
                    THEN /\ identifier' = OrElse(cliOptions.tabName, cliOptions.tabIndex)
                         /\ pc' = "resolve_start"
                         /\ stack' = << "cli_resolve_ret" >> \o stack
                         /\ UNCHANGED << sendVars, allVars, resolveTabs, resolveRet >>
                    ELSE /\ Invoke(cliNotification',
                                   DefaultParam(cliOptions.pluginName, Str(sDefaultPlugin)).s,
                                   NoOptions, "cli_current_ret")
                         /\ UNCHANGED << maxRetries, retryDelay, payload, jsonPayload,
                                         command, received, attempt, lastError,
                                         trace, warned, sendRet, allVars, resolveVars >>
    /\ UNCHANGED << ZELLIJ, focus, entry, notifyVars, args, cliOptions >>

\* lines 324-328: the catch of the targeted send: the error, printTabs(), exit 1
CliTargetFailed(e) ==
    \E alive1 \in BOOLEAN, alive2 \in BOOLEAN, dump \in SizedDumpInputs :
        LET r == printTabs(alive1, alive2, dump) IN
        /\ spawned' = spawned + r.spawned
        /\ out' = IF r.threw
                  THEN out \o << ErrorLine(e), Line("stderr", "Available tabs:", NoErr, Undef, Undef),
                                 ErrorLine(NotInSessionError) >>
                  ELSE out \o << ErrorLine(e), Line("stderr", "Available tabs:", NoErr, Undef, Undef) >>
                           \o r.lines
        /\ Exit(1)

\* lines 319-322: after resolveTab, the tabIndex assignment and the send
CliResolveReturn ==
    /\ pc = "cli_resolve_ret"
    /\ IF resolveRet.status = "raised"
       THEN /\ CliTargetFailed(resolveRet.error)
            /\ UNCHANGED << stack, sendVars, cliNotification >>
       ELSE /\ cliNotification' = [cliNotification EXCEPT !.tabIndex = resolveRet.value]
            /\ Invoke(cliNotification',
                      DefaultParam(cliOptions.pluginName, Str(sDefaultPlugin)).s,
                      NoOptions, "cli_target_ret")
            /\ UNCHANGED << maxRetries, retryDelay, payload, jsonPayload, command,
                            received, attempt, lastError, trace,
                            warned, sendRet, spawned, out, exitCode >>
    /\ UNCHANGED << ZELLIJ, focus, entry, notifyVars, allVars, resolveVars, args, cliOptions >>

\* lines 322-329: after the targeted send
CliTargetReturn ==
    /\ pc = "cli_target_ret"
    /\ IF sendRet.status = "raised"
       THEN CliTargetFailed(sendRet.error)
       ELSE /\ out' = Append(out, Line("stdout", "Notification sent to tab ${tabIndex}", NoErr,
                                       cliNotification.tabIndex, Undef))
            /\ Exit(0)
            /\ UNCHANGED spawned
    /\ UNCHANGED << ZELLIJ, focus, entry, notifyVars, stack, sendVars, allVars, resolveVars, args, cliOptions,
                    cliNotification >>

\* lines 332-338: after the current-tab send
CliCurrentReturn ==
    /\ pc = "cli_current_ret"
    /\ IF sendRet.status = "raised"
       THEN out' = Append(out, ErrorLine(sendRet.error)) /\ Exit(1)
       ELSE /\ out' = Append(out, Line("stdout", "Notification sent to current tab", NoErr,
                                       Undef, Undef))
            /\ Exit(0)
    /\ UNCHANGED << ZELLIJ, focus, entry, notifyVars, stack, spawned, sendVars, allVars, resolveVars, args,
                    cliOptions, cliNotification >>

\* lines 304-313 and 336-338: after sendNotificationToAllTabs
CliAllReturn ==
    /\ pc = "cli_all_ret"
    /\ IF allRet.status = "raised"
       THEN out' = Append(out, ErrorLine(allRet.error)) /\ Exit(1)
       ELSE /\ out' = (IF allRet.hasErrors /\ Len(allRet.errors) > 0
                       THEN Append(out, Line("stderr", "Warning: ${result.errors.length} tabs failed:",
                                             NoErr, Num(Len(allRet.errors)), Undef))
                       ELSE out)
                      \o << Line("stdout", "Notification sent to ${result.success}/${result.total} tabs",
                                 NoErr, allRet.success, allRet.total) >>
            /\ Exit(0)
    /\ UNCHANGED << ZELLIJ, focus, entry, notifyVars, stack, spawned, sendVars, allVars, resolveVars, args,
                    cliOptions, cliNotification >>

main == \/ CliParse \/ CliListTabs \/ CliSession \/ CliResolveReturn \/ CliTargetReturn
        \/ CliCurrentReturn \/ CliAllReturn

----
\* Entry points

MaxArgs == 3

BroadcastInputs ==
    [type : {Absent, Str(sBogus)}, message : {Str(sMsg)}, title : {Absent}, source : {Absent},
     priority : {Absent}, ttl : {Absent}, tabIndex : {Absent}]

ArgInputs ==
    {<< "-", "h" >>, << "-", "l" >>, << "-", "a" >>, << "-", "n" >>, << "-", "i" >>,
     << "-", "t" >>, << "-", "p" >>, << "-", "d" >>, << "-", "q" >>, << "-", "-", "t", "t", "l" >>,
     << "-", "x" >>, sSuccess, sHigh, sBogus, << "2" >>, << "5", "x" >>, sBackend}

ArgLists == UNION {[1..k -> ArgInputs] : k \in 0..MaxArgs}

\* the state of the process before its first statement
InitLocals ==
    /\ ZELLIJ \in BOOLEAN
    /\ focus = 1
    /\ maxRetries = 0
    /\ retryDelay = 0
    /\ payload = NoPayload
    /\ jsonPayload = << >>
    /\ command = << >>
    /\ received = NotReceived
    /\ attempt = 0
    /\ lastError = NoLastError
    /\ trace = << >>
    /\ warned = 0
    /\ spawned = 0
    /\ sendRet = Pending
    /\ tabs = << >>
    /\ tabPos = 0
    /\ successCount = 0
    /\ errors = << >>
    /\ calls = << >>
    /\ allRet = AllPending
    /\ resolveTabs = NotQueried
    /\ resolveRet = ResolvePending
    /\ cliOptions = DefaultOptions
    /\ out = << >>
    /\ exitCode = -1
    /\ file = NoFile
    /\ loads = [p \in Loads |-> IdleLoad]
    /\ player = IdlePlayer
    /\ cycle = IdleCycle
    /\ listener = IdleListener

\* a program that requires the library and calls sendNotification
InitSend ==
    /\ entry = "sendNotification"
    /\ pc = "send_start"
    /\ stack = << "done" >>
    /\ \E n \in NotificationInputs, p \in PluginInputs, o \in OptionsInputs :
         /\ notification = n
         /\ pluginName = DefaultParam(p, Str(sDefaultPlugin)).s
         /\ options = o
    /\ allNotification = notification
    /\ allPlugin = pluginName
    /\ cliNotification = notification
    /\ identifier = Undef
    /\ args = << >>

\* a program that requires the library and calls sendNotificationToAllTabs
InitBroadcast ==
    /\ entry = "sendNotificationToAllTabs"
    /\ pc = "all_start"
    /\ stack = << "done" >>
    /\ allNotification \in BroadcastInputs
    /\ allPlugin = sDefaultPlugin
    /\ notification = allNotification
    /\ pluginName = allPlugin
    /\ options = NoOptions
    /\ cliNotification = notification
    /\ identifier = Undef
    /\ args = << >>

\* a program that requires the library and calls resolveTab
InitResolve ==
    /\ entry = "resolveTab"
    /\ pc = "resolve_start"
    /\ stack = << "done" >>
    /\ identifier \in IdentifierInputs
    /\ notification \in BroadcastInputs
    /\ pluginName = sDefaultPlugin
    /\ options = NoOptions
    /\ allNotification = notification
    /\ allPlugin = pluginName
    /\ cliNotification = notification
    /\ args = << >>

\* messages with characters the shell or JSON give a meaning to
sItQuote == << "i", "t", "'", "s" >>
sInjected == << "'", ";", "x", ";", "'" >>
sQuoted == << "a", "\"", "b", "\"" >>
sBackslashed == << "a", "\\", "b" >>

PayloadInputs ==
    [type : {Absent, Str(<< >>), Str(sSuccess)},
     message : {Str(sMsg), Str(sItQuote), Str(sInjected), Str(sQuoted), Str(sBackslashed)},
     title : {Absent, Undef, Str(<< >>), Str(sMsg)},
     source : {Absent, Str(<< >>)},
     priority : {Absent, Str(sHigh)},
     ttl : {Absent, Null, Num(5000)},
     tabIndex : {Absent, Num(1)}]

\* a program that calls sendNotification, looked at for the text it pipes
InitPayloadText ==
    /\ entry = "sendNotification"
    /\ pc = "text_start"
    /\ stack = << "done" >>
    /\ notification \in PayloadInputs
    /\ pluginName \in {sDefaultPlugin, sMyPlugin}
    /\ options = NoOptions
    /\ allNotification = notification
    /\ allPlugin = pluginName
    /\ cliNotification = notification
    /\ identifier = Undef
    /\ args = << >>

\* the zellij-notify program started with an argument list
InitZellijNotify ==
    /\ entry = "zellij-notify"
    /\ pc = "cli_start"
    /\ stack = << >>
    /\ args \in ArgLists
    /\ notification = CliBuildNotification(DefaultOptions)
    /\ pluginName = sDefaultPlugin
    /\ options = NoOptions
    /\ allNotification = notification
    /\ allPlugin = pluginName
    /\ cliNotification = notification
    /\ identifier = Undef

Init == (InitSend \/ InitBroadcast \/ InitResolve) /\ InitLocals

Next == sendNotification \/ sendNotificationToAllTabs \/ ResolveTab

Spec == Init /\ [][Next]_vars

NextCli == main \/ sendNotification \/ sendNotificationToAllTabs \/ ResolveTab

InitCli == InitZellijNotify /\ InitLocals

SpecCli == InitCli /\ [][NextCli]_vars

InitPayload == InitPayloadText /\ InitLocals

\* no zellij call is in progress
InitZellijIdle ==
    /\ ZELLIJ = FALSE
    /\ focus = 1
    /\ entry = "claude-notify"
    /\ pc = "done"
    /\ stack = << >>
    /\ spawned = 0
    /\ notification = CliBuildNotification(DefaultOptions)
    /\ pluginName = sDefaultPlugin
    /\ options = NoOptions
    /\ maxRetries = 0
    /\ retryDelay = 0
    /\ payload = NoPayload
    /\ attempt = 0
    /\ lastError = NoLastError
    /\ trace = << >>
    /\ warned = 0
    /\ sendRet = Pending
    /\ jsonPayload = << >>
    /\ command = << >>
    /\ received = NotReceived
    /\ allNotification = notification
    /\ allPlugin = pluginName
    /\ tabs = << >>
    /\ tabPos = 0
    /\ successCount = 0
    /\ errors = << >>
    /\ calls = << >>
    /\ allRet = AllPending
    /\ identifier = Undef
    /\ resolveTabs = NotQueried
    /\ resolveRet = ResolvePending
    /\ args = << >>
    /\ cliOptions = DefaultOptions
    /\ cliNotification = notification
    /\ out = << >>
    /\ exitCode = -1

\* processes that load the configuration while they share one settings file
InitConfig ==
    /\ file \in FileInputs
    /\ loads = [p \in Loads |-> NewLoad]
    /\ player = IdlePlayer
    /\ cycle = IdleCycle
    /\ listener = IdleListener
    /\ InitZellijIdle

NextConfig == getConfig

SpecConfig == InitConfig /\ [][NextConfig]_vars

\* one playSound call of a claude-notify process
InitSound ==
    /\ player \in PlayerInputs
    /\ file = NoFile
    /\ loads = [p \in Loads |-> IdleLoad]
    /\ cycle = IdleCycle
    /\ listener = IdleListener
    /\ InitZellijIdle

NextSound == playSound

SpecSound == InitSound /\ [][NextSound]_vars

\* the settings of the sample runs of main
WebhookInputs ==
    {Webhook(Bool(FALSE), Null, Bool(FALSE)), Webhook(Bool(TRUE), Null, Bool(TRUE)),
     Webhook(Bool(TRUE), Str(sHttpUrl), Bool(FALSE)),
     Webhook(Bool(TRUE), Str(sHttpsUrl), Bool(TRUE)),
     Webhook(Bool(TRUE), Str(sNoUrl), Bool(FALSE)),
     Webhook(Bool(TRUE), Str(sFtpUrl), Bool(FALSE))}

RemoteSoundInputs ==
    {Absent, RemoteSound(Bool(TRUE), Absent, Absent, Absent),
     RemoteSound(Absent, Str(sHttpUrl), Absent, Bool(TRUE)),
     RemoteSound(Absent, Str(sHttpsUrl), Absent, Absent),
     RemoteSound(Absent, Str(sFtpUrl), Absent, Absent),
     RemoteSound(Absent, Str(sNoUrl), Absent, Bool(TRUE)),
     RemoteSound(Absent, Absent, Num(8080), Bool(TRUE))}

\* an SSH session shows in SSH_CONNECTION or in SSH_TTY; the relay target of the
\* environment is a URL or a port
EnvInputs ==
    {Env(Undef, ssh[1], ssh[2], remote[1], remote[2]) :
        ssh \in {<< Undef, Undef >>, << Str(sPort), Undef >>, << Undef, Str(sNotifyPath) >>},
        remote \in {<< Undef, Undef >>, << Str(sHttpUrl), Undef >>, << Undef, Str(sPort) >>,
                    << Undef, Str(sBadPort) >>}}

\* the visualization is off, on outside a zellij session, on inside one
VisualizationInputs == {<< Absent, Undef >>, << Bool(TRUE), Undef >>, << Bool(TRUE), Str(sPort) >>}

MainConfigInputs ==
    {MainConfig(o, d, w, Absent, r) :
        o \in {Bool(TRUE), Bool(FALSE)}, d \in {Bool(TRUE), Bool(FALSE)}, w \in WebhookInputs,
        r \in RemoteSoundInputs}

NoEnv == Env(Undef, Undef, Undef, Undef, Undef)

QuietConfig ==
    MainConfig(Bool(TRUE), Bool(FALSE), Webhook(Bool(FALSE), Null, Bool(FALSE)), Absent, Absent)

\* the later version reads all of the settings and the environment; the earlier
\* one knows neither the relay nor the visualization
CycleInputs ==
    {Cycle("part_001", "default", [c EXCEPT !.zellijVisualization = v[1]],
           [e EXCEPT !.ZELLIJ = v[2]]) :
        c \in MainConfigInputs, e \in EnvInputs, v \in VisualizationInputs}
    \cup {Cycle("part_001", m, QuietConfig, NoEnv) : m \in {"config", "listen"}}
    \cup {Cycle("claude-notify.js", m, c, NoEnv) :
             m \in {"default", "config"},
             c \in {k \in MainConfigInputs : k.remoteSound = Absent}}

\* one run of claude-notify
InitCycle ==
    /\ cycle \in CycleInputs
    /\ player = IdlePlayer
    /\ listener = IdleListener
    /\ file = NoFile
    /\ loads = [p \in Loads |-> IdleLoad]
    /\ InitZellijIdle

NextCycle == notifyMain \/ playSound

SpecCycle == InitCycle /\ [][NextCycle]_vars

\* runs with the sound on: with and without a webhook, with and without a relay
\* target in an SSH session, in both versions of the program
TerminationInputs ==
    {c \in CycleInputs :
        /\ c.mode = "default"
        /\ c.config.sound = Bool(TRUE) /\ c.config.desktopNotification = Bool(FALSE)
        /\ c.config.zellijVisualization = Bool(TRUE) /\ c.env.ZELLIJ # Undef
        /\ c.config.webhook \in {Webhook(Bool(FALSE), Null, Bool(FALSE)),
                                  Webhook(Bool(TRUE), Str(sHttpUrl), Bool(FALSE))}
        /\ c.config.remoteSound \in {Absent, RemoteSound(Absent, Str(sHttpUrl), Absent, Bool(TRUE))}
        /\ c.env.SSH_CONNECTION # Undef
        /\ c.env.CLAUDE_NOTIFY_REMOTE_URL = Undef /\ c.env.CLAUDE_NOTIFY_REMOTE_PORT = Undef}
    \cup {c \in CycleInputs :
        /\ c.program = "claude-notify.js" /\ c.mode = "default"
        /\ c.config.sound = Bool(TRUE) /\ c.config.desktopNotification = Bool(FALSE)
        /\ c.config.webhook \in {Webhook(Bool(FALSE), Null, Bool(FALSE)),
                                  Webhook(Bool(TRUE), Str(sHttpUrl), Bool(FALSE))}}

InitTermination ==
    /\ cycle \in TerminationInputs
    /\ player = IdlePlayer
    /\ listener = IdleListener
    /\ file = NoFile
    /\ loads = [p \in Loads |-> IdleLoad]
    /\ InitZellijIdle

\* every step that can be taken is taken in the end: the event loop and the
\* operating system run whatever is ready
SpecCycleFair == InitTermination /\ [][NextCycle]_vars /\ WF_vars(NextCycle)

\* the relay server of claude-notify --listen, with or without --once
InitListener ==
    /\ listener \in {Listener(once) : once \in BOOLEAN}
    /\ cycle = IdleCycle
    /\ player = IdlePlayer
    /\ file = NoFile
    /\ loads = [p \in Loads |-> IdleLoad]
    /\ InitZellijIdle

NextListener == startRemoteListener

SpecListener == InitListener /\ [][NextListener]_vars

NextPayload == SendPipeText

SpecPayload == InitPayload /\ [][NextPayload]_vars

----
\* Properties

SendPcs == {"send_start", "send_goto", "send_pipe", "send_sleep", "send_exhausted"}
InLoopPcs == {"send_goto", "send_pipe", "send_sleep", "send_exhausted"}

\* the current sendNotification call has returned or raised
CallEnded == pc \notin SendPcs /\ sendRet.status # "none"

IsPipe(e) == e.cmd = "pipe"
IsSleep(e) == e.cmd = "sleep"
IsPipeOrSleep(e) == e.cmd \in {"pipe", "sleep"}
Pipes == SelectSeq(trace, IsPipe)
Sleeps == SelectSeq(trace, IsSleep)
PipesAndSleeps == SelectSeq(trace, IsPipeOrSleep)

RECURSIVE SumArgs(_)
SumArgs(es) == IF es = << >> THEN 0 ELSE Head(es).arg + SumArgs(Tail(es))

\* C1: with maxRetries = 2 and retryDelay = 100, a call whose first k pipe attempts
\* fail transiently and whose attempt k+1 succeeds returns true after k+1 pipe
\* attempts with the k sleeps 100, 200 (in that order) between them.
C1_RetryThenSuccess ==
    LET k == Len(Pipes) - 1 IN
    (/\ maxRetries = 2 /\ retryDelay = 100
     /\ Pipes # << >>
     /\ Pipes[Len(Pipes)].res = "ok"
     /\ \A i \in 1..k : Pipes[i].res = "transient")
    => /\ sendRet = Returned(TRUE)
       /\ pc \notin InLoopPcs
       /\ k <= 2
       /\ Len(PipesAndSleeps) = 2 * k + 1
       /\ \A j \in 1..(2 * k + 1) :
            PipesAndSleeps[j].cmd = IF j % 2 = 1 THEN "pipe" ELSE "sleep"
       /\ [i \in 1..Len(Sleeps) |-> Sleeps[i].arg] = SubSeq(<< 100, 200 >>, 1, k)

C1_Witness ==
    /\ maxRetries = 2 /\ retryDelay = 100
    /\ sendRet = Returned(TRUE)
    /\ [i \in 1..Len(Pipes) |-> Pipes[i].res] = << "transient", "transient", "ok" >>
    /\ [i \in 1..Len(Sleeps) |-> Sleeps[i].arg] = << 100, 200 >>

\* C2: a pipe attempt that fails with 'no pipe' on stderr is the last child process
\* of the call, at whichever attempt it happens, and the call raises the plugin
\* not found error naming the plugin.
C2_NoPipeRaisesImmediately ==
    \A i \in 1..Len(trace) :
        (trace[i].cmd = "pipe" /\ trace[i].res = "nopipe")
        => /\ i = Len(trace)
           /\ pc \notin InLoopPcs
           /\ sendRet = Raised(PluginNotFoundError(pluginName))

C2_Witness ==
    /\ trace # << >>
    /\ trace[Len(trace)].cmd = "pipe"
    /\ trace[Len(trace)].res = "nopipe"
    /\ trace[Len(trace)].arg >= 1
    /\ Len(Sleeps) >= 1
    /\ sendRet = Raised(PluginNotFoundError(pluginName))

\* C3: a sendNotification call that returns, returns true.
C3_NeverReturnsFalse ==
    (CallEnded /\ sendRet.status = "returned") => sendRet.value = TRUE

C5_NotInSession ==
    /\ ~ZELLIJ
       => /\ trace = << >>
          /\ pc \notin InLoopPcs
          /\ (sendRet.status # "none" => sendRet = Raised(NotInSessionError))
    /\ (trace # << >> /\ trace[1] = Ev("probe", 0, "fail"))
       => /\ Len(trace) = 1
          /\ pc \notin InLoopPcs
          /\ sendRet = Raised(NotInSessionError)

C5_Witness ==
    /\ ZELLIJ
    /\ entry = "sendNotification"
    /\ pc = "done"
    /\ trace = << Ev("probe", 0, "fail") >>
    /\ sendRet = Raised(NotInSessionError)

\* the {tab, error} entries of the calls that raised, in call order
RECURSIVE FailedEntries(_, _)
FailedEntries(cs, ts) ==
    IF cs = << >> THEN << >>
    ELSE LET rest == FailedEntries(SubSeq(cs, 1, Len(cs) - 1), ts)
             c == cs[Len(cs)]
         IN  IF c.ret.status = "raised"
             THEN Append(rest, [tab |-> ts[Len(cs)].name, error |-> c.ret.error])
             ELSE rest

\* C6: with N >= 1 tabs the broadcast calls sendNotification once per tab, in
\* enumeration order, with that tab's index; a failing tab does not stop the later
\* ones; the result has total = N, success + length(errors) = N, and one {tab,
\* error} entry per failed tab in tab order.
C6_BroadcastEveryTab ==
    Len(tabs) >= 1
    => /\ Len(calls) <= Len(tabs)
       /\ \A i \in 1..Len(calls) : calls[i].tabIndex = Num(tabs[i].index)
       /\ allRet.status # "none"
          => /\ allRet.status = "returned"
             /\ Len(calls) = Len(tabs)
             /\ \A i \in 1..Len(calls) : calls[i].ret.status # "none"
             /\ allRet.hasErrors
             /\ allRet.total = Num(Len(tabs))
             /\ allRet.success.n + Len(allRet.errors) = Len(tabs)
             /\ allRet.errors = FailedEntries(calls, tabs)

C6_Witness ==
    /\ Len(tabs) >= 2
    /\ allRet.status = "returned"
    /\ calls[1].ret = Raised(PluginNotFoundError(allPlugin))
    /\ calls[2].ret = Returned(TRUE)
    /\ allRet.total = Num(Len(tabs))
    /\ Len(allRet.errors) >= 1
    /\ allRet.errors[1].tab = tabs[1].name

\* C7: with no tabs enumerated the broadcast makes one current-tab send and returns
\* an aggregate {total, success, errors} with total = 1.
C7_FallbackAggregate ==
    (allRet.status = "returned" /\ Len(tabs) = 0)
    => /\ allRet.total = Num(1)
       /\ allRet.success \in {Num(0), Num(1)}
       /\ allRet.hasErrors

\* C8: a numeric identifier is returned unchanged without a tab query; a string
\* identifier resolves to the index of the first tab with exactly that name, else
\* to the integer it parses to, else 'Tab not found' naming it is raised.
C8_ResolveTab ==
    resolveRet.status # "none"
    => /\ identifier.t = "number"
          => resolveRet = Resolved(identifier) /\ ~resolveTabs.queried
       /\ (identifier.t = "string" /\ ~resolveTabs.raised)
          => LET ts == resolveTabs.tabs
                 named == {i \in 1..Len(ts) : ts[i].name = identifier.s}
             IN  /\ resolveTabs.queried
                 /\ IF named # {}
                    THEN resolveRet = Resolved(Num(CHOOSE i \in named : \A j \in named : i <= j))
                    ELSE IF parseInt(identifier.s) # NaN
                    THEN resolveRet = Resolved(parseInt(identifier.s))
                    ELSE resolveRet = ResolveRaised(TabNotFoundError(identifier.s))
                 /\ [i \in 1..Len(ts) |-> ts[i].name] = << sBackend, sFrontend >>
                    => /\ identifier = Str(sBackend) => resolveRet = Resolved(Num(1))
                       /\ identifier = Str(<< "3" >>) => resolveRet = Resolved(Num(3))
                       /\ identifier = Str(sDatabase)
                          => resolveRet = ResolveRaised(TabNotFoundError(sDatabase))

C8_Witness ==
    /\ identifier = Str(<< "3" >>)
    /\ Len(resolveTabs.tabs) = 2
    /\ resolveTabs.tabs[1].name = << "3" >>
    /\ resolveTabs.tabs[2].name = sBackend
    /\ resolveRet = Resolved(Num(1))

\* C9: every payload handed to the plugin pipe has its type in NOTIFICATION_TYPES
\* and its priority in PRIORITIES, whoever the sender is.
C9_PayloadEnums ==
    \A i \in 1..Len(trace) :
        trace[i].cmd = "pipe"
        => /\ Includes(NOTIFICATION_TYPES, payload.type)
           /\ Includes(PRIORITIES, payload.priority)

MetaFlags == HelpFlags \cup ListTabsFlags

\* the arguments hold no meta flag and are rejected by parseArgs or carry no message
RejectedArgs ==
    /\ entry = "zellij-notify"
    /\ Len(args) > 0
    /\ \A i \in 1..Len(args) : args[i] \notin MetaFlags
    /\ \/ parseArgs(args).threw
       \/ ~Truthy(parseArgs(args).options.message)

\* C10: arguments with an unknown flag, an invalid --type/--priority value or no
\* message make zellij-notify exit 1 with a message on stderr before any zellij
\* child process has been started.
C10_ValidationBeforeIpc ==
    RejectedArgs
    => /\ spawned = 0
       /\ pc = "exit"
          => /\ exitCode = 1
             /\ \E i \in 1..Len(out) : out[i].stream = "stderr"

\* the value the claim gives a payload property: the caller's where the caller
\* supplied one, else the default
SuppliedOr(v, default) == IF Truthy(Prop(v)) THEN v ELSE Str(default)

\* C13: in every payload sendNotification builds, type, title, source and priority
\* are present with a non-empty value, the caller's where the caller supplied one
\* and else the default info, Notification, zellij-notify, normal; a timestamp is
\* present; the ttl key is present iff the caller supplied a ttl, null included.
C13_PayloadDefaults ==
    payload # NoPayload
    => /\ \A f \in {"type", "title", "source", "priority"} :
            /\ f \in {k \in DOMAIN payload : WrittenKeys(payload, << k >>) # << >>}
            /\ Truthy(payload[f])
       /\ payload.type = SuppliedOr(notification.type, sInfo)
       /\ payload.title = SuppliedOr(notification.title, sNotification)
       /\ payload.source = SuppliedOr(notification.source, sZellijNotify)
       /\ payload.priority = SuppliedOr(notification.priority, sNormal)
       /\ payload.timestamp.t = "number"
       /\ (payload.ttl # Absent) <=> (Prop(notification.ttl) # Undef)

\* C14: the plugin pipe is run with exactly the words zellij pipe -p <plugin> --
\* <JSON text of the payload>: the shell accepts the command line, gives no
\* character of it a meaning of its own, and the last word is the JSON text.
C14_PipeArgumentIsJson ==
    command # << >>
    => /\ received.ok
       /\ ~received.meta
       /\ received.words = << << "z", "e", "l", "l", "i", "j" >>, << "p", "i", "p", "e" >>,
                               << "-", "p" >>, pluginName, << "-", "-" >>, jsonPayload >>

\* the first argument asks for the help, or there is no argument
HelpAsked == Len(args) = 0 \/ args[1] \in HelpFlags

\* the arguments are parsed without error and ask for a current-tab or targeted send
SendAsked ==
    /\ Len(args) > 0
    /\ ~parseArgs(args).threw
    /\ ~parseArgs(args).options.help
    /\ ~parseArgs(args).options.listTabs
    /\ ~parseArgs(args).options.all

IsNumeral(a) ==
    LET body == IF a # << >> /\ Head(a) \in {"-", "+"} THEN Tail(a) ELSE a
    IN  body # << >> /\ \A i \in 1..Len(body) : IsDigit(body[i])

\* the arguments hold --ttl followed by a negative or non-numeric value, or by nothing
BadTtl ==
    \E i \in 1..Len(args) :
        /\ args[i] \in TtlFlags
        /\ \/ i = Len(args)
           \/ ~IsNumeral(args[i + 1])
           \/ Head(args[i + 1]) = "-"

\* the seconds set by the last --ttl <S> or -q of the arguments, 300 without any
SecondsAsked ==
    LET at == {i \in 1..Len(args) : args[i] \in TtlFlags \cup QuickFlags}
        last == CHOOSE i \in at : \A j \in at : j <= i
    IN  IF at = {} THEN 300
        ELSE IF args[last] \in QuickFlags THEN 5
        ELSE DecimalValue(args[last + 1])

\* C12: the ttl of a payload zellij-notify sends is null when -d/--dismissable is
\* among the arguments, whatever --ttl/-q flags there are; otherwise it is 1000 * S
\* for the S of the last --ttl <S> or -q (5), 300 without any; with a negative or
\* non-numeric --ttl value nothing is sent and the exit status is 1.
C12_TtlOfPayload ==
    (entry = "zellij-notify" /\ \A i \in 1..Len(args) : args[i] \notin MetaFlags)
    => /\ BadTtl => /\ payload = NoPayload
                    /\ pc = "exit" => exitCode = 1
       /\ (~BadTtl /\ payload # NoPayload)
          => IF \E i \in 1..Len(args) : args[i] \in DismissableFlags
             THEN payload.ttl = Null
             ELSE payload.ttl = Num(1000 * SecondsAsked)

----
\* Properties of getConfig

Done(p) == loads[p].pc = "cfg_done"

\* the load found no file, could not read it, or could not use what it parsed
ReadFailed(p) == loads[p].read.kind \in ParseErrors \cup {"absent", "unreadable", "null"}

\* C15: getConfig never raises; whatever the settings file is (absent, unreadable,
\* not JSON, JSON that is no object) a finished load has returned a configuration
\* with every built-in property, and after a read or parse error the value it
\* returned is exactly the built-in defaults.
C15_NeverRaises ==
    \A p \in Loads :
        /\ loads[p].ret.status # "raised"
        /\ Done(p) =>
             /\ loads[p].ret.status = "returned"
             /\ \A k \in DocKeys :
                    defaultConfig[k] # Absent => loads[p].ret.value.doc[k] # Absent
             /\ ReadFailed(p) => loads[p].ret.value = Config(defaultConfig, FALSE)

\* a load of a file that holds no JSON has returned the defaults, and a load of a
\* JSON text that is no object has returned a configuration
C15_Witness ==
    /\ Done(1) /\ loads[1].read.kind = "invalid"
    /\ loads[1].ret = CfgReturned(Config(defaultConfig, FALSE))

\* the load read a document with secondSound = true and no soundType
ReadLegacyFlag(p) ==
    /\ loads[p].read.kind = "object"
    /\ loads[p].read.doc.secondSound = Bool(TRUE)
    /\ loads[p].read.doc.soundType = Absent

\* C16: a load of a stored document with secondSound = true and no soundType
\* returns a configuration whose soundType is the bell asset, and the document it
\* persists has soundType = the bell asset and no secondSound key.
C16_SecondSoundMigration ==
    \A p \in Loads :
        (Done(p) /\ ReadLegacyFlag(p))
        => /\ loads[p].migrated
           /\ loads[p].ret.value.doc.soundType = Str(BELL)
           /\ loads[p].wrote # NotRead
              => /\ loads[p].wrote.kind = "object"
                 /\ loads[p].wrote.doc.soundType = Str(BELL)
                 /\ loads[p].wrote.doc.secondSound = Absent

\* a load of such a document is over, it has persisted its document, and the file
\* holds it
C16_Witness ==
    /\ Done(1) /\ ReadLegacyFlag(1)
    /\ loads[1].wrote # NotRead
    /\ file.content = loads[1].wrote

\* C17: the soundType of every configuration getConfig returns is one of the known
\* assets; when the soundType of the stored document is none of them, the load
\* returns the default asset and the document it persists carries the default.
C17_KnownSoundType ==
    \A p \in Loads :
        Done(p)
        => /\ Includes(SOUND_TYPES, loads[p].ret.value.doc.soundType)
           /\ ( /\ loads[p].read.kind = "object"
                /\ loads[p].read.doc.soundType # Absent
                /\ ~Includes(SOUND_TYPES, loads[p].read.doc.soundType) )
              => /\ loads[p].ret.value.doc.soundType = Str(HARP)
                 /\ loads[p].wrote # NotRead => loads[p].wrote.doc.soundType = Str(HARP)

\* a document one of the two migrations rewrites
IsLegacy(d) == NeedsMigration1(d) \/ NeedsMigration2(Migration1(d))

\* the document one load of a stored document d persists
SingleLoad(d) == Content("object", Spread(defaultConfig, Migration2(Migration1(d))))

\* C18: when the getConfig calls that run concurrently on one legacy document are
\* all over and no write has failed, the file holds the document a single load
\* leaves, all of them have returned the same configuration, and a later load of
\* that document has nothing to migrate, so it writes nothing.
C18_ConcurrentMigration ==
    ( /\ \A p \in Loads : Done(p)
      /\ file.exists /\ file.readable /\ ~file.failed
      /\ file.initial.kind = "object" /\ IsLegacy(file.initial.doc) )
    => /\ file.content = SingleLoad(file.initial.doc)
       /\ \A p, q \in Loads : loads[p].ret = loads[q].ret
       /\ ~IsLegacy(file.content.doc)

----
\* Properties of the sound playback

\* playSound of part_001 has chosen its asset
AssetChosen == player.program = "part_001" /\ player.soundType # Undef

KnownOverride ==
    player.soundTypeOverride.t = "string" /\ player.soundTypeOverride.s \in {HARP, BELL}

Rank(cmd) == CASE cmd = "paplay" -> 1 [] cmd = "aplay" -> 2 [] cmd = "play" -> 3 [] OTHER -> 4

\* C20: on Linux with sound enabled and the asset file present, the commands
\* playSound starts are paplay, aplay, play in this order; a command is started
\* only when every command started before it failed, so none is started after one
\* has succeeded; the call returns without a bell character when one succeeded,
\* and with exactly one bell character, after all three were tried, when none
\* did; it never raises.
C20_FallbackChain ==
    ( /\ player.platform = "linux"
      /\ player.pc \notin {"play_idle", "play_start"}
      /\ Truthy(player.config.sound)
      /\ ~player.warned )
    => LET n == Len(player.started) IN
       /\ player.ret # "raised"
       /\ \A i \in 1..n : Rank(player.started[i].cmd) <= 3
       /\ \A i, j \in 1..n :
              i < j => /\ Rank(player.started[i].cmd) <= Rank(player.started[j].cmd)
                       /\ ~player.started[i].ok
       /\ player.ret = "returned"
          => /\ n > 0
             /\ IF player.started[n].ok THEN player.bell = 0
                ELSE /\ {player.started[i].cmd : i \in 1..n} = {"paplay", "aplay", "play"}
                     /\ player.bell = 1

----
\* Properties of the tab switch of sendNotification

\* a sendNotification call for a given tab is past its session check
SendingToTab == pc \in SendPcs \ {"send_start"} /\ Prop(notification.tabIndex) # Undef

\* C30: when a tabIndex is given, the pipe of every attempt, the first and each
\* retry, directly follows a go-to-tab for that index; a go-to-tab step, whether
\* the switch worked or failed, always leads to the pipe of its attempt; the
\* warning is logged at most once per call, and only on attempt 0.
C30_SwitchThenPipe ==
    /\ [](SendingToTab
           => /\ warned <= 1
              /\ \A i \in 1..Len(trace) :
                     trace[i].cmd = "pipe"
                     => /\ i > 1
                        /\ trace[i - 1] = Ev("goto", notification.tabIndex.n, "-"))
    /\ [][ /\ pc = "send_goto" => pc' = "send_pipe"
           /\ pc' = "send_pipe" /\ SendingToTab' => pc = "send_goto"
           /\ warned' > warned /\ pc # "send_start" => pc = "send_goto" /\ attempt = 0 ]_vars

\* the switch of attempt 0 failed and was logged, its pipe and the pipe of a retry
\* were both made, each after a go-to-tab
C30_Witness ==
    /\ SendingToTab
    /\ warned = 1
    /\ attempt = 1
    /\ Len(trace) >= 5
    /\ trace[Len(trace)].cmd = "pipe"
    /\ trace[Len(trace) - 1].cmd = "goto"
    /\ trace[Len(trace) - 2].cmd = "sleep"
    /\ trace[Len(trace) - 3].cmd = "pipe"
    /\ trace[Len(trace) - 4].cmd = "goto"

----
\* Properties of the relay client and of main

\* main of part_001 has decided about the relay: it is past triggerRemoteSound
RelayDecided ==
    /\ cycle.program = "part_001" /\ cycle.mode = "default"
    /\ cycle.pc \in {"main_relay", "main_play", "main_desktop", "main_end", "exited"}
    /\ cycle.raised # "webhook"

\* a relay target is configured: a URL or a port, in the environment or in the
\* settings
HasTarget ==
    \/ Truthy(cycle.env.CLAUDE_NOTIFY_REMOTE_URL) \/ Truthy(cycle.env.CLAUDE_NOTIFY_REMOTE)
    \/ Truthy(cycle.env.CLAUDE_NOTIFY_REMOTE_PORT)
    \/ /\ cycle.config.remoteSound # Absent
       /\ Truthy(cycle.config.remoteSound.url) \/ Truthy(cycle.config.remoteSound.port)

InSsh ==
    \/ Truthy(cycle.env.SSH_CONNECTION) \/ Truthy(cycle.env.SSH_CLIENT)
    \/ Truthy(cycle.env.SSH_TTY)

\* only a port is configured, in the environment
BarePort ==
    /\ ~Truthy(cycle.env.CLAUDE_NOTIFY_REMOTE_URL)
    /\ cycle.config.remoteSound = Absent
    /\ Truthy(cycle.env.CLAUDE_NOTIFY_REMOTE_PORT)

\* C21: the relay POST is sent only when a remote target resolves and the process
\* is in an SSH session; a bare port resolves to http://127.0.0.1:<port>/notify; in
\* every other case triggerRemoteSound has made no request and answered false.
C21_RelayOnlyInSshWithTarget ==
    RelayDecided
    => /\ cycle.relay # "none" => HasTarget /\ InSsh
       /\ ~(HasTarget /\ InSsh)
          => /\ cycle.relay = "none"
             /\ \A i \in 1..Len(cycle.sent) : cycle.sent[i] # "relay"
             /\ ~cycle.remoteReplaced
             /\ cycle.raised = "none"
       /\ (cycle.relay # "none" /\ BarePort)
          => cycle.target.url
               = sLoopback \o cycle.env.CLAUDE_NOTIFY_REMOTE_PORT.s \o sNotifyPath

\* in an SSH session with only a port in the environment the POST has gone to the
\* loopback URL of that port
C21_Witness ==
    /\ RelayDecided /\ BarePort /\ InSsh
    /\ cycle.relay = "2xx"
    /\ cycle.target.url = sLoopback \o sPort \o sNotifyPath
    /\ cycle.sent[Len(cycle.sent)] = "relay"

\* replaceSound is set in the settings
ReplaceSoundSet ==
    cycle.config.remoteSound # Absent /\ Truthy(cycle.config.remoteSound.replaceSound)

\* playSound has been called in this cycle
SoundCalled == player.pc # "play_idle"

C23_RelayNeverRaises ==
    (RelayDecided /\ HasTarget /\ InSsh)
    => /\ cycle.raised # "relay"
       /\ cycle.relay \in {"none", "other", "error", "timeout"}
          => ~cycle.remoteReplaced /\ SoundCalled

\* the sound is enabled and no webhook replaces it
SoundWanted ==
    /\ Truthy(cycle.config.sound)
    /\ ~(Truthy(cycle.config.webhook.enabled) /\ Truthy(cycle.config.webhook.replaceSound))

\* the sound path has run: the relay POST was sent, or playSound got past its test
\* of config.sound and chose an asset
SoundPathRan == cycle.relay # "none" \/ (SoundCalled /\ player.soundType # Undef)

\* C27: a default cycle with the sound enabled and not replaced that has ended has
\* attempted the sound channel, whatever happened to the webhook, the
\* visualization and the relay; it has sent the webhook POST when a webhook with a
\* URL is enabled; no channel failure has left main, and the exit status is 0.
C27_ChannelsIsolated ==
    (cycle.mode = "default" /\ SoundWanted /\ cycle.pc = "exited")
    => /\ SoundPathRan
       /\ (Truthy(cycle.config.webhook.enabled) /\ Truthy(cycle.config.webhook.url))
          => cycle.webhook # "none"
       /\ cycle.raised = "none"
       /\ cycle.exit = 0

C29_CycleTerminates == (cycle.mode = "default") => <>(cycle.pc = "exited")

----
\* Properties of the relay listener

\* what the log holds for request id
LogOf(id, whats) ==
    {i \in 1..Len(listener.log) : listener.log[i].req = id /\ listener.log[i].what \in whats}

Responses == {"204", "400", "404"}

\* the response the relay contract gives a request
Expected(r) ==
    IF r.method # "POST" \/ r.url # "/notify" THEN "404"
    ELSE IF r.body = "malformed" THEN "400"
    ELSE "204"

\* C24: every request whose body stays within the ceiling and whose handling is
\* over has exactly one response: 404 for a wrong method or path, 400 for a body
\* that is no valid JSON, 204 otherwise; the sound is played once, before the
\* response, for a request answered 204, and not at all for the others.
C24_OneResponsePerRequest ==
    \A id \in 1..Len(listener.reqs) :
        LET r == listener.reqs[id] IN
        (r.ended /\ r.bytes <= Ceiling)
        => /\ Cardinality(LogOf(id, Responses)) = 1
           /\ LogOf(id, {Expected(r)}) # {}
           /\ Cardinality(LogOf(id, {"play"})) = IF Expected(r) = "204" THEN 1 ELSE 0
           /\ \A i \in LogOf(id, {"play"}), j \in LogOf(id, Responses) : i < j

\* C25: a request whose body has grown over the 64 KiB ceiling is destroyed at the
\* chunk that crosses it: its handling is over, no sound is played and no 204 is
\* sent for it, and the listener goes on serving.
C25_OversizedBodyAborted ==
    \A id \in 1..Len(listener.reqs) :
        listener.reqs[id].bytes > Ceiling
        => /\ listener.reqs[id].ended
           /\ LogOf(id, {"play", "204"}) = {}
           /\ listener.state # "crashed"

\* C26: with --once at most one request is answered 204 and at most one sound is
\* played over the life of the listener, whatever connections are open; the
\* listener closes exactly when that request has been answered, so requests
\* answered 400 or 404 leave it listening.
C26_OnceServesOne ==
    listener.once
    => LET served == {i \in 1..Len(listener.log) : listener.log[i].what = "204"}
           played == {i \in 1..Len(listener.log) : listener.log[i].what = "play"}
       IN  /\ Cardinality(served) <= 1
           /\ Cardinality(played) <= 1
           /\ listener.state = "closed" <=> Cardinality(served) = 1

\* C31: a call whose attempts are all used up raises the timeout error when its
\* last pipe attempt timed out and the generic failure error otherwise, whatever
\* the earlier attempts failed with; both state maxRetries+1 attempts.
C31_ExhaustedError ==
    (/\ CallEnded
     /\ Pipes # << >>
     /\ Len(Pipes) = maxRetries + 1
     /\ Pipes[Len(Pipes)].res = "transient")
    => sendRet = Raised(IF Pipes[Len(Pipes)].code = "ETIMEDOUT"
                        THEN TimeoutError(pluginName, maxRetries + 1)
                        ELSE FailedError(maxRetries + 1))

\* a timeout followed by another failure on the last attempt ends in the generic
\* error, and a failure followed by a timeout ends in the timeout error
C31_Witness ==
    /\ CallEnded
    /\ Len(Pipes) = maxRetries + 1
    /\ Len(Pipes) >= 2
    /\ Pipes[1].code = "ETIMEDOUT"
    /\ Pipes[Len(Pipes)].res = "transient"
    /\ Pipes[Len(Pipes)].code = "-"
    /\ sendRet = Raised(FailedError(maxRetries + 1))

\* the load is over and its write of the migrated document failed
WriteFailed(p) == Done(p) /\ loads[p].migrated /\ loads[p].wrote = NotRead

\* no other load has reached its write
AloneSoFar(p) == \A q \in Loads \ {p} : loads[q].pc \in {"cfg_exists", "cfg_read"}

\* C32: a load whose write of the migrated document failed has returned the
\* migrated configuration without raising, and the file still holds the document
\* the load read, so the next load finds the legacy document again.
C32_FailedWriteKeepsDocument ==
    \A p \in Loads :
        (WriteFailed(p) /\ AloneSoFar(p))
        => /\ loads[p].ret = CfgReturned(Config(SingleLoad(loads[p].read.doc).doc, FALSE))
           /\ file.content = loads[p].read

\* C33: on Linux a playSound call that starts a command at all (sound enabled,
\* asset present) starts paplay twice for the same asset before anything else: a
\* call that has returned has started both, and the second command it starts is
\* paplay again, never a fallback backend.
C33_TwoPaplayInvocations ==
    (player.platform = "linux" /\ player.started # << >>)
    => /\ player.started[1].cmd = "paplay"
       /\ player.pc = "play_done" => Len(player.started) >= 2
       /\ Len(player.started) >= 2
          => /\ player.started[2].cmd = "paplay"
             /\ player.started[2].asset = player.started[1].asset

\* C34: a default cycle with config.sound = true that has ended without a channel
\* error has issued a local playback attempt (playSound got to its asset), a relay
\* request or a webhook POST, whatever the other configuration values are.
C34_NeverSilent ==
    (/\ cycle.mode = "default" /\ cycle.pc = "exited" /\ cycle.raised = "none"
     /\ Truthy(cycle.config.sound))
    => SoundPathRan \/ cycle.webhook # "none"

IsDelivered(e) == e.cmd = "pipe" /\ e.delivered
Deliveries == Len(SelectSeq(trace, IsDelivered))

\* C35: the plugin has got the payload of a sendNotification call exactly once when
\* the call returned true, and at most once when it raised, whatever the pipe
\* attempts before the last one ended with.
C35_AtMostOnce ==
    CallEnded
    => /\ sendRet = Returned(TRUE) => Deliveries = 1
       /\ sendRet.status = "raised" => Deliveries <= 1

\* C36: in a cycle with remoteSound.replaceSound set, when the listener has played
\* the sound for the relay request the local playSound is not called, whether the
\* response came before or after the timer of the client.
C36_NoDoubleSound ==
    (ReplaceSoundSet /\ cycle.served) => ~SoundCalled

\* C37: the user is on the first tab when the process starts; when a
\* sendNotification call with a tabIndex, or a broadcast, is over, the focus is on
\* that tab again.
C37_FocusRestored ==
    (\/ CallEnded /\ Prop(notification.tabIndex) # Undef /\ entry = "sendNotification"
     \/ allRet.status # "none")
    => focus = 1

\* the broadcast is over and at least one send of it succeeded
SomeTabReached ==
    /\ allRet.status = "returned"
    /\ IF allRet.hasErrors THEN allRet.success.n >= 1 ELSE allRet.bool

\* C38: a zellij-notify --all run that has ended has exit status 0 exactly when
\* the send to at least one tab succeeded; when every send raised, it is not 0.
C38_AllExitStatus ==
    (entry = "zellij-notify" /\ pc = "exit" /\ allRet.status # "none")
    => (exitCode = 0 <=> SomeTabReached)

\* the stored document asks for no migration: it has no secondSound = true
\* without a soundType, and its soundType is absent or a known asset
NoMigrationNeeded(d) ==
    /\ ~(d.secondSound = Bool(TRUE) /\ d.soundType = Absent)
    /\ d.soundType = Absent \/ Includes(SOUND_TYPES, d.soundType)

\* C39: the loads of a stored document that needs no migration never reach the
\* write (which is where the directory is created), write nothing, and the file
\* holds the document it held; each returns the stored values over the defaults.
C39_NoMigrationNoWrite ==
    (file.exists /\ file.readable /\ file.initial.kind = "object"
     /\ NoMigrationNeeded(file.initial.doc))
    => /\ file.content = file.initial /\ file.writes = 0 /\ ~file.failed
       /\ \A p \in Loads :
            /\ loads[p].pc \notin {"cfg_write", "cfg_write_data"}
            /\ loads[p].wrote = NotRead
            /\ Done(p) => /\ ~loads[p].migrated
                          /\ loads[p].ret =
                               CfgReturned(Config(Spread(defaultConfig, file.initial.doc), FALSE))

\* both loads of a document that carries the legacy flag next to a known soundType
\* are over, and the document is still there
C39_Witness ==
    /\ \A p \in Loads : Done(p)
    /\ file.initial.kind = "object"
    /\ file.initial.doc.secondSound = Bool(TRUE)
    /\ file.initial.doc.soundType = Str(BELL)
    /\ file.content = file.initial
    /\ loads[1].ret.value.doc.soundType = Str(BELL)

====
